---- MODULE Spec2Model ----
(***************************************************************************)
(* Resource-Allocation-Graph simulator: the allocation ledger, the wait    *)
(* queues, the wait-for graph and its cycle detector, the avoidance test,  *)
(* the simulation stepper and the snapshot history (class RAGState and     *)
(* class Simulator), with the scenario loaders of the application.         *)
(*                                                                         *)
(* A JavaScript object with string keys is modelled as a sequence of       *)
(* [key, value] pairs in insertion order, because Object.keys and          *)
(* Object.values iterate in that order and the cycle detector's output     *)
(* depends on it.  The text of a log line is not modelled: logs is the     *)
(* number of lines in this.logs.                                           *)
(***************************************************************************)
EXTENDS Integers, Sequences, FiniteSets, TLC

VARIABLES state, history
vars == <<state, history>>

(* ------------------------------ bounds -------------------------------- *)

\* Simulator from construction (Spec): wait-queue entries per resource,
\* events in the event queue, value of the step counter, lines in the log
MaxQueue == 2
MaxEvents == 1
MaxStep == 1
MaxLogs == 4

\* the ledger with both processes and both resources registered (SpecLedger)
LedgerMaxQueue == 1
LedgerMaxStep == 1
LedgerMaxLogs == 6

\* avoidance on from the start, single-instance resources (SpecAvoid)
AvoidMaxQueue == 1
AvoidMaxEvents == 1
AvoidMaxStep == 1
AvoidMaxLogs == 4

\* the bounds of SpecQueue (avoidance never enabled, queues of two entries)
QueueMaxQueue == 2
QueueMaxStep == 1
QueueMaxLogs == 5

\* the bounds of SpecCap: steps counted beyond HistoryCap, and snapshots below
\* HistoryCap that stepBackward may go
CapOver == 3
CapBack == 2

\* the bound of SpecContention: the six events and the idle steps after them
ContentionMaxStep == 12

\* the bounds of SpecWaits (three processes, each holding its own resource)
WaitsMaxQueue == 2
WaitsMaxStep == 1
WaitsMaxLogs == 7

\* the bound of SpecGraph: steps taken on a wait-for graph
GraphMaxStep == 1

\* SpecSkip: two entries a queue, one step, as many log lines as its scenario needs
SkipMaxQueue == 2
SkipMaxStep == 1
SkipMaxLogs == 6

\* the built-in scenarios (SpecScenario): step counter, snapshots in the history
ScenarioMaxStep == 3
ScenarioMaxHistory == 5

\* names and numbers the operations' arguments are drawn from
ProcNames == {"P1", "P2"}
ResNames == {"R1", "R2"}
InstanceInputs == {0, 1, 2}
CountInputs == {0, 1, 2}
LedgerCounts == {1, 2}
EventCounts == {1, 2}
EventTypes == {"request", "release"}

(* ---------------------------- sequences ------------------------------- *)

Max(a, b) == IF a >= b THEN a ELSE b
Min(a, b) == IF a <= b THEN a ELSE b

Range(s) == {s[i] : i \in 1..Len(s)}

RECURSIVE SumCounts(_)
SumCounts(s) == IF s = <<>> THEN 0 ELSE Head(s).count + SumCounts(Tail(s))

RemoveAt(s, i) == SubSeq(s, 1, i - 1) \o SubSeq(s, i + 1, Len(s))

\* Array.prototype.lastIndexOf, 1-based; 0 when absent
LastIndexOf(s, x) ==
  LET hits == {i \in 1..Len(s) : s[i] = x}
  IN IF hits = {} THEN 0 ELSE CHOOSE i \in hits : \A j \in hits : j <= i

\* the index of key k in an object, 0 when the key is absent
KeyIndex(obj, k) ==
  LET hits == {i \in 1..Len(obj) : obj[i].process = k}
  IN IF hits = {} THEN 0 ELSE CHOOSE i \in hits : TRUE

(* ----------------------------- data model ----------------------------- *)

\* new Process(name)
Process(name) == [name |-> name, state |-> "ready"]

\* variant of AtLeastOne: the number is taken as given
AsGiven(x) == x

\* Math.max(1, Number(x) || 1) on an integer x
AtLeastOne(x) == Max(1, IF x = 0 THEN 1 ELSE x)

\* new Resource(name, instances)
Resource(name, instances) == [name |-> name, total |-> AtLeastOne(instances)]

\* new RAGState()
NewRAGState ==
  [processes |-> <<>>, resources |-> <<>>,
   assignments |-> <<>>, waitingRequests |-> <<>>,
   eventQueue |-> <<>>, step |-> 0, logs |-> 0, avoidance |-> FALSE]

HasProcess(s, name) == \E i \in 1..Len(s.processes) : s.processes[i].name = name
HasResource(s, name) == \E i \in 1..Len(s.resources) : s.resources[i].name = name

getProcess(s, name) == CHOOSE p \in Range(s.processes) : p.name = name
getResource(s, name) == CHOOSE r \in Range(s.resources) : r.name = name

\* the maps of a resource; a missing key reads as the empty object / array
AssignedMap(s, resName) ==
  IF resName \in DOMAIN s.assignments THEN s.assignments[resName] ELSE <<>>
WaitQueue(s, resName) ==
  IF resName \in DOMAIN s.waitingRequests THEN s.waitingRequests[resName] ELSE <<>>

ensureResourceMaps(s, resName) ==
  [s EXCEPT
     !.assignments =
        IF resName \in DOMAIN s.assignments THEN @ ELSE (resName :> <<>>) @@ @,
     !.waitingRequests =
        IF resName \in DOMAIN s.waitingRequests THEN @ ELSE (resName :> <<>>) @@ @]

\* this.assignments[resName][procName] || 0
HeldOf(s, resName, procName) ==
  LET m == AssignedMap(s, resName)
      i == KeyIndex(m, procName)
  IN IF i = 0 THEN 0 ELSE m[i].count

\* Object.keys(this.assignments[resName] || {})
Holders(s, resName) ==
  LET m == AssignedMap(s, resName) IN [i \in 1..Len(m) |-> m[i].process]

availableOf(s, resName) ==
  IF ~HasResource(s, resName) THEN 0
  ELSE getResource(s, resName).total - SumCounts(AssignedMap(s, resName))

\* if (!a[res][proc]) a[res][proc] = 0;  a[res][proc] += count
AddAssigned(s, resName, procName, count) ==
  LET m == AssignedMap(s, resName)
      i == KeyIndex(m, procName)
      m2 == IF i = 0 THEN Append(m, [process |-> procName, count |-> count])
            ELSE [m EXCEPT ![i].count = @ + count]
  IN [s EXCEPT !.assignments[resName] = m2]

SetProcessState(s, name, st) ==
  [s EXCEPT !.processes =
     [i \in 1..Len(@) |-> IF @[i].name = name THEN [@[i] EXCEPT !.state = st] ELSE @[i]]]

addProcess(s, name) ==
  IF name = "" \/ HasProcess(s, name) THEN [st |-> s, ret |-> FALSE]
  ELSE [st |-> [s EXCEPT !.processes = Append(@, Process(name))], ret |-> TRUE]

addResource(s, name, instances) ==
  IF name = "" \/ HasResource(s, name) THEN [st |-> s, ret |-> FALSE]
  ELSE [st |-> ensureResourceMaps(
                 [s EXCEPT !.resources = Append(@, Resource(name, instances))], name),
        ret |-> TRUE]

enqueueEvent(s, evt) == [s EXCEPT !.eventQueue = Append(@, evt)]
clearEvents(s) == [s EXCEPT !.eventQueue = <<>>]

(* ---------------------------- serialization --------------------------- *)

serialize(s) ==
  [processes |-> [i \in 1..Len(s.processes) |->
                    [name |-> s.processes[i].name, state |-> s.processes[i].state]],
   resources |-> [i \in 1..Len(s.resources) |->
                    [name |-> s.resources[i].name, total |-> s.resources[i].total]],
   assignments |-> s.assignments,
   waitingRequests |-> s.waitingRequests,
   eventQueue |-> s.eventQueue,
   step |-> s.step,
   logs |-> s.logs,
   avoidance |-> s.avoidance]

from(data) ==
  [processes |-> [i \in 1..Len(data.processes) |->
                    [Process(data.processes[i].name) EXCEPT !.state = data.processes[i].state]],
   resources |-> [i \in 1..Len(data.resources) |->
                    Resource(data.resources[i].name, data.resources[i].total)],
   assignments |-> data.assignments,
   waitingRequests |-> data.waitingRequests,
   eventQueue |-> data.eventQueue,
   step |-> data.step,
   logs |-> data.logs,
   avoidance |-> data.avoidance]

(* -------------------------- deadlock detection ------------------------ *)

\* Set.prototype.add on an insertion-ordered set
SetAdd(s, x) == IF x \in Range(s) THEN s ELSE Append(s, x)

RECURSIVE SetAddAll(_, _)
SetAddAll(s, xs) == IF xs = <<>> THEN s ELSE SetAddAll(SetAdd(s, Head(xs)), Tail(xs))

\* variant of WFGQueue: a blocked entry waits for the first holder only
RECURSIVE WFGQueueFirstHolder(_, _, _, _)
WFGQueueFirstHolder(adj, q, avail, holders) ==
  IF q = <<>> THEN adj
  ELSE WFGQueueFirstHolder(
         IF avail >= Head(q).count \/ holders = <<>> THEN adj
         ELSE [adj EXCEPT ![Head(q).process] = SetAdd(@, Head(holders))],
         Tail(q), avail, holders)

\* the holders other than procName
Others(holders, procName) == SelectSeq(holders, LAMBDA h : h # procName)

\* variant of WFGQueue: a blocked entry does not wait for its own process
RECURSIVE WFGQueueOthersOnly(_, _, _, _)
WFGQueueOthersOnly(adj, q, avail, holders) ==
  IF q = <<>> THEN adj
  ELSE WFGQueueOthersOnly(
         IF avail >= Head(q).count THEN adj
         ELSE [adj EXCEPT ![Head(q).process] = SetAddAll(@, Others(holders, Head(q).process))],
         Tail(q), avail, holders)

\* variant of WFGQueue: the satisfiable-request test is inverted
RECURSIVE WFGQueueInverted(_, _, _, _)
WFGQueueInverted(adj, q, avail, holders) ==
  IF q = <<>> THEN adj
  ELSE LET req == Head(q)
           adj2 == IF avail < req.count THEN adj
                   ELSE [adj EXCEPT ![req.process] = SetAddAll(@, holders)]
       IN WFGQueueInverted(adj2, Tail(q), avail, holders)

\* the inner loop of buildWFG over one resource's wait queue
RECURSIVE WFGQueue(_, _, _, _)
WFGQueue(adj, q, avail, holders) ==
  IF q = <<>> THEN adj
  ELSE LET req == Head(q)
           adj2 == IF avail >= req.count THEN adj
                   ELSE [adj EXCEPT ![req.process] = SetAddAll(@, holders)]
       IN WFGQueue(adj2, Tail(q), avail, holders)

\* the outer loop of buildWFG over the resources
RECURSIVE WFGResources(_, _, _)
WFGResources(adj, s, rs) ==
  IF rs = <<>> THEN adj
  ELSE LET r == Head(rs)
       IN WFGResources(
            WFGQueue(adj, WaitQueue(s, r.name), availableOf(s, r.name), Holders(s, r.name)),
            s, Tail(rs))

ProcessNames(s) == [i \in 1..Len(s.processes) |-> s.processes[i].name]

\* adjacency: process name -> ordered list of the processes it waits for
buildWFG(s) ==
  WFGResources([n \in Range(ProcessNames(s)) |-> <<>>], s, s.resources)

\* the three-colour depth-first search; c = [color, stack, cycles]
RECURSIVE dfs(_, _, _), dfsEdges(_, _, _, _)
\* variant of dfs: the node is not popped from the stack when it is finished
dfsUnpopped(adj, u, c) ==
  [dfsEdges(adj, u, 1, [c EXCEPT !.color[u] = "GRAY", !.stack = Append(@, u)])
     EXCEPT !.color[u] = "BLACK"]

dfs(adj, u, c) ==
  LET c1 == [c EXCEPT !.color[u] = "GRAY", !.stack = Append(@, u)]
      c2 == dfsEdges(adj, u, 1, c1)
  IN [c2 EXCEPT !.stack = SubSeq(@, 1, Len(@) - 1), !.color[u] = "BLACK"]
dfsEdges(adj, u, i, c) ==
  IF i > Len(adj[u]) THEN c
  ELSE LET v == adj[u][i]
           col == IF v \in DOMAIN c.color THEN c.color[v] ELSE "NONE"
           idx == LastIndexOf(c.stack, v)
           c2 == IF col = "WHITE" THEN dfs(adj, v, c)
                 ELSE IF col = "GRAY" /\ idx # 0
                      THEN [c EXCEPT !.cycles = Append(@, SubSeq(c.stack, idx, Len(c.stack)))]
                      ELSE c
       IN dfsEdges(adj, u, i + 1, c2)

\* for (const u of Object.keys(adj)) if (color[u] === WHITE) dfs(u)
RECURSIVE dfsRoots(_, _, _)
dfsRoots(adj, keys, c) ==
  IF keys = <<>> THEN c
  ELSE dfsRoots(adj, Tail(keys),
                IF c.color[Head(keys)] = "WHITE" THEN dfs(adj, Head(keys), c) ELSE c)

\* the result object of detectCyclesInAdj from the finished search c
CyclesFound(c) ==
  [hasCycle |-> Len(c.cycles) > 0,
   cycles |-> c.cycles,
   involved |-> UNION {Range(c.cycles[i]) : i \in 1..Len(c.cycles)}]

\* keys: Object.keys(adj), the processes in registry order
detectCyclesInAdj(adj, keys) ==
  CyclesFound(dfsRoots(adj, keys,
                       [color |-> [k \in DOMAIN adj |-> "WHITE"],
                        stack |-> <<>>, cycles |-> <<>>]))

DeadInfo(r, wfg) ==
  [hasCycle |-> r.hasCycle, cycles |-> r.cycles, involved |-> r.involved, wfg |-> wfg]

DetectIn(wfg, keys) == DeadInfo(detectCyclesInAdj(wfg, keys), wfg)

detectDeadlock(s) == DetectIn(buildWFG(s), ProcessNames(s))

(* --------------------------- avoidance helpers ------------------------ *)

\* the resources whose queue holds an entry of waiter and whose ledger holds holder
EdgeResources(s, waiter, holder) ==
  {r \in Range(s.resources) :
     /\ \E e \in Range(WaitQueue(s, r.name)) : e.process = waiter
     /\ holder \in Range(Holders(s, r.name))}

\* variant of PairIsSingleInstance: r.total is not looked at
PairHasEdge(rs) == rs # {}

\* one (waiter, holder) pair of the cycle walk: an edge found, and none multi-instance
PairIsSingleInstance(rs) == rs # {} /\ \A r \in rs : ~(r.total > 1)

cycleUsesOnlySingleInstanceResources(cyc, s) ==
  \A i \in 1..Len(cyc) :
    PairIsSingleInstance(EdgeResources(s, cyc[i], cyc[(i % Len(cyc)) + 1]))

\* the loop of stateHasDefiniteCycle over deadInfo.cycles
AllDefinite(cycles, next) ==
  \A i \in 1..Len(cycles) : cycleUsesOnlySingleInstanceResources(cycles[i], next)

Classified(deadInfo, next) ==
  IF ~deadInfo.hasCycle
  THEN [hasCycle |-> FALSE, definite |-> FALSE, deadInfo |-> deadInfo]
  ELSE [hasCycle |-> TRUE, definite |-> AllDefinite(deadInfo.cycles, next),
        deadInfo |-> deadInfo]

stateHasDefiniteCycle(next) == Classified(detectDeadlock(next), next)

MarkBlocked(s, procName) ==
  IF HasProcess(s, procName) THEN SetProcessState(s, procName, "blocked") ELSE s

\* variant of PushWait: a process that has an entry in the queue gets no other
PushWaitOnce(s, resName, procName, count) ==
  IF \E e \in Range(s.waitingRequests[resName]) : e.process = procName THEN s
  ELSE [s EXCEPT !.waitingRequests[resName] =
                   Append(@, [process |-> procName, count |-> count])]

PushWait(s, resName, procName, count) ==
  [s EXCEPT !.waitingRequests[resName] =
     Append(@, [process |-> procName, count |-> count])]

\* variant of WaitHypothesis: the copy is tested without the new wait entry
WaitHypothesisUnqueued(s, procName, resName, count) ==
  MarkBlocked(ensureResourceMaps(from(serialize(s)), resName), procName)

\* the speculative copy with the wait entry appended
WaitHypothesis(s, procName, resName, count) ==
  MarkBlocked(PushWait(ensureResourceMaps(from(serialize(s)), resName),
                       resName, procName, AtLeastOne(count)),
              procName)

addWaitWouldCreateDefiniteCycle(s, procName, resName, count) ==
  stateHasDefiniteCycle(WaitHypothesis(s, procName, resName, count))

\* the speculative copy with the grant added to the ledger
GrantHypothesis(s, procName, resName, count) ==
  AddAssigned(ensureResourceMaps(from(serialize(s)), resName),
              resName, procName, AtLeastOne(count))

grantWouldCreateDefiniteCycle(s, procName, resName, count) ==
  stateHasDefiniteCycle(GrantHypothesis(s, procName, resName, count))

\* what the caller does with { hasCycle, definite }:
\* "deny" (hasCycle && definite), "warn" (hasCycle && !definite), "pass"
Verdict(chk) ==
  IF chk.hasCycle /\ chk.definite THEN "deny"
  ELSE IF chk.hasCycle /\ ~chk.definite THEN "warn"
  ELSE "pass"

\* variant of GrantVerdict: the grant paths never consult the avoidance test
GrantVerdictSkipped(s, procName, resName, count) == "pass"

\* if (this.avoidance) { ... grantWouldCreateDefiniteCycle ... }
GrantVerdict(s, procName, resName, count) ==
  IF s.avoidance THEN Verdict(grantWouldCreateDefiniteCycle(s, procName, resName, count))
  ELSE "pass"

\* variant of WaitVerdict: the enqueue path never consults the avoidance test
WaitVerdictSkipped(s, procName, resName, count) == "pass"

\* if (this.avoidance) { ... addWaitWouldCreateDefiniteCycle ... }
WaitVerdict(s, procName, resName, count) ==
  IF s.avoidance THEN Verdict(addWaitWouldCreateDefiniteCycle(s, procName, resName, count))
  ELSE "pass"

(* --------------------------- request / release ------------------------ *)

\* n more lines in this.logs
Log(s, n) == [s EXCEPT !.logs = @ + n]

\* the "Allowed (potential cycle)" line precedes the line of the action itself
Lines(verdict) == IF verdict = "warn" THEN 2 ELSE 1

GrantPath(s, procName, resName, count, verdict) ==
  IF verdict = "deny"
  THEN [st |-> Log(s, 1), ret |-> "AvoidedCycle"]
  ELSE [st |-> Log(AddAssigned(s, resName, procName, count), Lines(verdict)),
        ret |-> "Granted"]

\* variant of WaitPath: the process is marked blocked before the avoidance test
WaitPathMarked(s, procName, resName, count, verdict) ==
  IF verdict = "deny"
  THEN [st |-> Log(SetProcessState(s, procName, "blocked"), 1),
        ret |-> "AvoidedWaitCycle"]
  ELSE [st |-> Log(SetProcessState(PushWait(s, resName, procName, count),
                                   procName, "blocked"),
                   Lines(verdict)),
        ret |-> "Queued"]

WaitPath(s, procName, resName, count, verdict) ==
  IF verdict = "deny"
  THEN [st |-> Log(s, 1), ret |-> "AvoidedWaitCycle"]
  ELSE [st |-> Log(SetProcessState(PushWait(s, resName, procName, count),
                                   procName, "blocked"),
                   Lines(verdict)),
        ret |-> "Queued"]

\* variant of RequestKnown: the grant is made without comparing avail with count
RequestKnownUnchecked(s, procName, resName, count, enqueueIfBlocked) ==
  GrantPath(s, procName, resName, count, GrantVerdict(s, procName, resName, count))

\* request once both names are known and count is normalised
RequestKnown(s, procName, resName, count, enqueueIfBlocked) ==
  IF availableOf(s, resName) >= count
  THEN GrantPath(s, procName, resName, count, GrantVerdict(s, procName, resName, count))
  ELSE IF enqueueIfBlocked
       THEN WaitPath(s, procName, resName, count, WaitVerdict(s, procName, resName, count))
       ELSE [st |-> s, ret |-> "NotEnqueued"]

\* returns [st: the state after the call, ret: the kind of result returned]
request(s, procName, resName, rawCount, enqueueIfBlocked) ==
  IF ~HasProcess(s, procName) \/ ~HasResource(s, resName)
  THEN [st |-> s, ret |-> "Invalid"]
  ELSE RequestKnown(ensureResourceMaps(s, resName), procName, resName,
                    AtLeastOne(rawCount), enqueueIfBlocked)

MarkReady(s, procName) ==
  IF HasProcess(s, procName) THEN SetProcessState(s, procName, "ready") ELSE s

RemoveWait(s, resName, i) == [s EXCEPT !.waitingRequests[resName] = RemoveAt(@, i)]

\* the grant of queue entry i (req) in tryGrantWaiting
Unblock(s, resName, i, req, verdict) ==
  Log(MarkReady(RemoveWait(AddAssigned(s, resName, req.process, req.count), resName, i),
                req.process),
      Lines(verdict))

\* the while loop of tryGrantWaiting from scan index i; returns [st, changed]
RECURSIVE GrantScan(_, _, _, _)
\* variant of ScanGrantable: the index advances after a grant as well
ScanGrantableSkipping(s, resName, i, changed, req, verdict) ==
  IF verdict = "deny" THEN GrantScan(s, resName, i + 1, changed)
  ELSE GrantScan(Unblock(s, resName, i, req, verdict), resName, i + 1, TRUE)

\* variant of ScanGrantable: the scan ends at the first entry that is denied
ScanGrantableStopping(s, resName, i, changed, req, verdict) ==
  IF verdict = "deny" THEN [st |-> s, changed |-> changed]
  ELSE GrantScan(Unblock(s, resName, i, req, verdict), resName, i, TRUE)

ScanGrantable(s, resName, i, changed, req, verdict) ==
  IF verdict = "deny" THEN GrantScan(s, resName, i + 1, changed)
  ELSE GrantScan(Unblock(s, resName, i, req, verdict), resName, i, TRUE)

\* variant of ScanEntry: an entry is granted whatever is available
ScanEntryUnchecked(s, resName, i, changed, req) ==
  ScanGrantable(s, resName, i, changed, req,
                GrantVerdict(s, req.process, resName, req.count))

\* variant of ScanEntry: the scan stops at the first entry that does not fit
ScanEntryStrict(s, resName, i, changed, req) ==
  IF availableOf(s, resName) >= req.count
  THEN ScanGrantable(s, resName, i, changed, req,
                     GrantVerdict(s, req.process, resName, req.count))
  ELSE [st |-> s, changed |-> changed]

ScanEntry(s, resName, i, changed, req) ==
  IF availableOf(s, resName) >= req.count
  THEN ScanGrantable(s, resName, i, changed, req,
                     GrantVerdict(s, req.process, resName, req.count))
  ELSE GrantScan(s, resName, i + 1, changed)

GrantScan(s, resName, i, changed) ==
  IF i <= Len(s.waitingRequests[resName])
  THEN ScanEntry(s, resName, i, changed, s.waitingRequests[resName][i])
  ELSE [st |-> s, changed |-> changed]

tryGrantWaiting(s, resName) == GrantScan(ensureResourceMaps(s, resName), resName, 1, FALSE)

\* the two ways out of one iteration of the loop; returns [st, i]
ScanGranted(s, resName, i, req, verdict) ==
  [st |-> Unblock(s, resName, i, req, verdict), i |-> i]
ScanAdvanced(s, i) == [st |-> s, i |-> i + 1]

\* variant of ScanOnce: a denied entry leaves the index where it is
ScanOnceStuck(s, resName, i) ==
  IF availableOf(s, resName) >= s.waitingRequests[resName][i].count
  THEN IF GrantVerdict(s, s.waitingRequests[resName][i].process, resName,
                       s.waitingRequests[resName][i].count) = "deny"
       THEN [st |-> s, i |-> i]
       ELSE ScanGranted(s, resName, i, s.waitingRequests[resName][i],
                        GrantVerdict(s, s.waitingRequests[resName][i].process, resName,
                                     s.waitingRequests[resName][i].count))
  ELSE ScanAdvanced(s, i)

\* one iteration of the while loop of tryGrantWaiting, at index i of the queue
ScanOnce(s, resName, i) ==
  IF availableOf(s, resName) >= s.waitingRequests[resName][i].count
  THEN IF GrantVerdict(s, s.waitingRequests[resName][i].process, resName,
                       s.waitingRequests[resName][i].count) = "deny"
       THEN ScanAdvanced(s, i)
       ELSE ScanGranted(s, resName, i, s.waitingRequests[resName][i],
                        GrantVerdict(s, s.waitingRequests[resName][i].process, resName,
                                     s.waitingRequests[resName][i].count))
  ELSE ScanAdvanced(s, i)

\* at most n iterations of the loop from index i, fewer when the test
\* i < this.waitingRequests[resName].length fails before; returns [st, i]
RECURSIVE ScanFrom(_, _, _, _)
ScanOn(c, resName, n) == ScanFrom(c.st, resName, c.i, n)
ScanFrom(s, resName, i, n) ==
  IF n = 0 \/ i > Len(s.waitingRequests[resName]) THEN [st |-> s, i |-> i]
  ELSE ScanOn(ScanOnce(s, resName, i), resName, n - 1)

\* variant of SetHeld: the entry is kept when it reaches 0
SetHeldKept(s, resName, procName, n) ==
  [s EXCEPT !.assignments[resName] = [@ EXCEPT ![KeyIndex(@, procName)].count = n]]

\* this.assignments[resName][procName] = held - rel, deleted when it is 0
SetHeld(s, resName, procName, n) ==
  [s EXCEPT !.assignments[resName] =
     IF n = 0 THEN RemoveAt(@, KeyIndex(@, procName))
     ELSE [@ EXCEPT ![KeyIndex(@, procName)].count = n]]

\* variant of ReleaseHeld: the queue is not scanned after the release
ReleaseHeldUnscanned(s, procName, resName, held, rel) ==
  [st |-> Log(SetHeld(s, resName, procName, held - rel), 1),
   ret |-> "Released", released |-> rel]

ReleaseHeld(s, procName, resName, held, rel) ==
  [st |-> tryGrantWaiting(Log(SetHeld(s, resName, procName, held - rel), 1), resName).st,
   ret |-> "Released", released |-> rel]

\* variant of ReleaseKnown: the no-op test is held < 0
ReleaseKnownStrict(s, procName, resName, count, held) ==
  IF held < 0
  THEN [st |-> Log(s, 1), ret |-> "Released", released |-> 0]
  ELSE ReleaseHeld(s, procName, resName, held, Min(count, held))

ReleaseKnown(s, procName, resName, count, held) ==
  IF held <= 0
  THEN [st |-> Log(s, 1), ret |-> "Released", released |-> 0]
  ELSE ReleaseHeld(s, procName, resName, held, Min(count, held))

ReleaseMapped(s, procName, resName, count) ==
  ReleaseKnown(s, procName, resName, count, HeldOf(s, resName, procName))

\* returns [st, ret, released]
release(s, procName, resName, rawCount) ==
  IF ~HasProcess(s, procName) \/ ~HasResource(s, resName)
  THEN [st |-> s, ret |-> "Invalid", released |-> 0]
  ELSE ReleaseMapped(ensureResourceMaps(s, resName), procName, resName,
                     AtLeastOne(rawCount))

(* ------------------------------ the stepper --------------------------- *)

\* for (const r of this.resources) changed = this.tryGrantWaiting(r.name) || changed
RECURSIVE GrantAll(_, _, _)
GrantNext(g, rs, changed) == GrantAll(g.st, rs, g.changed \/ changed)
GrantAll(s, rs, changed) ==
  IF rs = <<>> THEN [st |-> s, changed |-> changed]
  ELSE GrantNext(tryGrantWaiting(s, Head(rs).name), Tail(rs), changed)

\* if (!changed) this.logs.push('No-op step: ...')
AutoGranted(g) == IF ~g.changed THEN Log(g.st, 1) ELSE g.st

IsWaiting(s, procName) ==
  \E j \in 1..Len(s.resources) :
    \E e \in Range(WaitQueue(s, s.resources[j].name)) : e.process = procName

\* variant of RecomputeStates: every process is made ready
RecomputeStatesReady(s) ==
  [s EXCEPT !.processes =
     [i \in 1..Len(s.processes) |-> [s.processes[i] EXCEPT !.state = "ready"]]]

\* variant of RecomputeStates: the process states are left as they are
RecomputeStatesKept(s) == s

\* the closing loop of stepForward: every process's state from the wait queues
RecomputeStates(s) ==
  [s EXCEPT !.processes =
     [i \in 1..Len(s.processes) |->
        [s.processes[i] EXCEPT
           !.state = IF IsWaiting(s, s.processes[i].name) THEN "blocked" ELSE "ready"]]]

\* next, with evt back at the head of the event queue when next has the ledger
\* and the wait queues of s
PutBackIfIdle(s, next, evt) ==
  IF next.assignments = s.assignments /\ next.waitingRequests = s.waitingRequests
  THEN [next EXCEPT !.eventQueue = <<evt>> \o @]
  ELSE next

\* variant of Dispatch: an event that changes neither ledger nor queues is put
\* back at the head of the event queue
DispatchRetrying(s, evt) ==
  PutBackIfIdle(s,
                IF evt.type = "request"
                THEN request(s, evt.process, evt.resource, evt.count, TRUE).st
                ELSE IF evt.type = "release"
                     THEN release(s, evt.process, evt.resource, evt.count).st
                     ELSE s,
                evt)

\* variant of Dispatch: release events are dropped
DispatchRequestsOnly(s, evt) ==
  IF evt.type = "request" THEN request(s, evt.process, evt.resource, evt.count, TRUE).st
  ELSE s

Dispatch(s, evt) ==
  IF evt.type = "request" THEN request(s, evt.process, evt.resource, evt.count, TRUE).st
  ELSE IF evt.type = "release" THEN release(s, evt.process, evt.resource, evt.count).st
  ELSE s

\* variant of StepBody: the auto-grant scan also follows a dispatched event
StepBodyEager(s, autoGrant) ==
  IF Len(s.eventQueue) > 0
  THEN IF autoGrant
       THEN GrantAll(Dispatch([s EXCEPT !.eventQueue = Tail(@)], Head(s.eventQueue)),
                     s.resources, FALSE).st
       ELSE Dispatch([s EXCEPT !.eventQueue = Tail(@)], Head(s.eventQueue))
  ELSE IF autoGrant THEN AutoGranted(GrantAll(s, s.resources, FALSE))
  ELSE s

\* the step once the counter is incremented
StepBody(s, autoGrant) ==
  IF Len(s.eventQueue) > 0
  THEN Dispatch([s EXCEPT !.eventQueue = Tail(@)], Head(s.eventQueue))
  ELSE IF autoGrant THEN AutoGranted(GrantAll(s, s.resources, FALSE))
  ELSE s

stepForward(s, autoGrant) ==
  RecomputeStates(StepBody([s EXCEPT !.step = @ + 1], autoGrant))

(* ------------------------------- Simulator ---------------------------- *)

\* the cap of the history (this.history.length > 1000)
HistoryCap == 1000

\* new Simulator(): [state, history]
NewSimulator == [state |-> NewRAGState, history |-> <<serialize(NewRAGState)>>]

setAvoidance(sim, on) == [sim EXCEPT !.state.avoidance = on]

\* variant of snapshot: the oldest snapshot is never dropped
snapshotUncapped(sim) == [sim EXCEPT !.history = Append(@, serialize(sim.state))]

snapshot(sim) ==
  LET h == Append(sim.history, serialize(sim.state))
  IN [sim EXCEPT !.history = IF Len(h) > HistoryCap THEN Tail(h) ELSE h]

\* variant of Simulator.stepForward: the snapshot is taken before the step
SimStepForwardEarly(sim, autoGrant) ==
  [snapshot(sim) EXCEPT !.state = stepForward(@, autoGrant)]

SimStepForward(sim, autoGrant) ==
  snapshot([sim EXCEPT !.state = stepForward(@, autoGrant)])

\* variant of stepBackward: the last snapshot is not removed
stepBackwardKept(sim) ==
  IF Len(sim.history) > 1
  THEN [sim EXCEPT !.state = from(sim.history[Len(sim.history) - 1])]
  ELSE sim

\* variant of stepBackward: the snapshot reinstated is the one popped
stepBackwardPopped(sim) ==
  IF Len(sim.history) > 1
  THEN [state |-> from(sim.history[Len(sim.history)]),
        history |-> SubSeq(sim.history, 1, Len(sim.history) - 1)]
  ELSE sim

stepBackward(sim) ==
  IF Len(sim.history) > 1
  THEN LET h == SubSeq(sim.history, 1, Len(sim.history) - 1)
       IN [state |-> from(h[Len(h)]), history |-> h]
  ELSE sim

\* variant of resetToInitial: the history is left as it is
resetToInitialKept(sim) ==
  IF Len(sim.history) > 0 THEN [sim EXCEPT !.state = from(sim.history[1])] ELSE sim

resetToInitial(sim) ==
  IF Len(sim.history) > 0
  THEN [state |-> from(sim.history[1]), history |-> <<sim.history[1]>>]
  ELSE sim

hardReset(sim) == NewSimulator

\* this.history.map(h => deepClone(h)): the Simulator after the call and the
\* array returned, one copy of each snapshot
exportTrace(sim) ==
  [sim |-> sim, ret |-> [i \in 1..Len(sim.history) |-> sim.history[i]]]

(* --------------------------- application wiring ----------------------- *)

\* sim.snapshot(); if (label) sim.state.logs.push(...): every caller passes a label
commitState(sim) == [snapshot(sim) EXCEPT !.state = Log(@, 1)]

\* sim.history = [sim.state.serialize()]; sim.state.logs.push(...)
setBaseline(sim) == [state |-> Log(sim.state, 1), history |-> <<serialize(sim.state)>>]

Evt(type, procName, resName, count) ==
  [type |-> type, process |-> procName, resource |-> resName, count |-> count]

RECURSIVE AddAllProcesses(_, _)
AddAllProcesses(s, names) ==
  IF names = <<>> THEN s
  ELSE AddAllProcesses(addProcess(s, Head(names)).st, Tail(names))

\* rs: <<name, instances>> pairs
RECURSIVE AddAllResources(_, _)
AddAllResources(s, rs) ==
  IF rs = <<>> THEN s
  ELSE AddAllResources(addResource(s, Head(rs)[1], Head(rs)[2]).st, Tail(rs))

\* sim.state.assignments[res][proc] = n, for <<res, proc, n>> triples on fresh maps
RECURSIVE AssignAll(_, _)
AssignAll(s, held) ==
  IF held = <<>> THEN s
  ELSE AssignAll([s EXCEPT !.assignments[Head(held)[1]] =
                    Append(@, [process |-> Head(held)[2], count |-> Head(held)[3]])],
                 Tail(held))

RECURSIVE EnqueueAll(_, _)
EnqueueAll(s, evts) ==
  IF evts = <<>> THEN s ELSE EnqueueAll(enqueueEvent(s, Head(evts)), Tail(evts))

\* the body shared by the loaders: hardReset, registry, ledger, events, one log line
Loaded(sim, names, rs, held, evts) ==
  [hardReset(sim) EXCEPT
     !.state = Log(EnqueueAll(AssignAll(AddAllResources(AddAllProcesses(@, names), rs),
                                        held),
                              evts),
                   1)]

loadSampleCycle(sim) ==
  Loaded(sim, <<"P1", "P2">>, << <<"R1", 1>>, <<"R2", 1>> >>,
         << <<"R1", "P1", 1>>, <<"R2", "P2", 1>> >>,
         <<Evt("request", "P1", "R2", 1), Evt("request", "P2", "R1", 1)>>)

loadSampleNoDeadlock(sim) ==
  Loaded(sim, <<"P1", "P2", "P3">>, << <<"R1", 2>>, <<"R2", 1>> >>,
         << <<"R1", "P1", 1>>, <<"R1", "P2", 1>> >>,
         <<Evt("request", "P3", "R1", 1), Evt("release", "P1", "R1", 1),
           Evt("request", "P2", "R2", 1), Evt("release", "P2", "R2", 1)>>)

loadSampleThreeProcCycle(sim) ==
  Loaded(sim, <<"P1", "P2", "P3">>, << <<"R1", 1>>, <<"R2", 1>>, <<"R3", 1>> >>,
         << <<"R1", "P1", 1>>, <<"R2", "P2", 1>>, <<"R3", "P3", 1>> >>,
         <<Evt("request", "P1", "R2", 1), Evt("request", "P2", "R3", 1),
           Evt("request", "P3", "R1", 1)>>)

loadSampleContention(sim) ==
  Loaded(sim, <<"P1", "P2", "P3", "P4">>, << <<"CPU", 2>>, <<"IO", 1>> >>,
         << <<"CPU", "P1", 1>>, <<"CPU", "P2", 1>> >>,
         <<Evt("request", "P3", "CPU", 1), Evt("request", "P4", "IO", 1),
           Evt("release", "P2", "CPU", 1), Evt("request", "P1", "IO", 1),
           Evt("release", "P4", "IO", 1), Evt("request", "P2", "IO", 1)>>)

\* the scenario buttons: a loader followed by setBaseline
Samples(sim) ==
  {setBaseline(loadSampleCycle(sim)), setBaseline(loadSampleNoDeadlock(sim)),
   setBaseline(loadSampleThreeProcCycle(sim)), setBaseline(loadSampleContention(sim))}

(* ------------------------------- actions ------------------------------ *)

\* the live state and the history as one Simulator object
Sim == [state |-> state, history |-> history]

\* the transition to Simulator object n
Becomes(n) ==
  /\ state' = n.state
  /\ history' = n.history

\* the transition made by a call on the live state that leaves it as s
Leaves(s) == Becomes([Sim EXCEPT !.state = s])

AddProcess(name) == Leaves(addProcess(state, name).st)

AddResource(name, instances) == Leaves(addResource(state, name, instances).st)

Request(procName, resName, count, enqueueIfBlocked) ==
  Leaves(request(state, procName, resName, count, enqueueIfBlocked).st)

Release(procName, resName, count) == Leaves(release(state, procName, resName, count).st)

EnqueueEvent(evt) == Leaves(enqueueEvent(state, evt))

ClearEvents == Leaves(clearEvents(state))

SetAvoidance(on) == Becomes(setAvoidance(Sim, on))

\* RAGState.stepForward on the live state, with no snapshot
StateStepForward(autoGrant) == Leaves(stepForward(state, autoGrant))

\* Simulator.stepForward: the step and the snapshot
StepForward(autoGrant) == Becomes(SimStepForward(Sim, autoGrant))

StepBackward == Becomes(stepBackward(Sim))

ResetToInitial == Becomes(resetToInitial(Sim))

HardReset == Becomes(hardReset(Sim))

\* the handler of the avoidance checkbox: setAvoidance, then commitState
ToggleAvoidance(on) == Becomes(commitState(setAvoidance(Sim, on)))

LoadSample == \E n \in Samples(Sim) : Becomes(n)

Events(procs, ress, counts) ==
  [type : EventTypes, process : procs, resource : ress, count : counts]

\* the model's bounds on a live state
Fits(s, maxQueue, maxEvents, maxStep, maxLogs) ==
  /\ s.logs <= maxLogs
  /\ s.step <= maxStep
  /\ Len(s.eventQueue) <= maxEvents
  /\ \A r \in DOMAIN s.waitingRequests : Len(s.waitingRequests[r]) <= maxQueue

(* --------------------- the Simulator from construction ---------------- *)

\* Spec draws its names from one process and one resource
SimProcs == {"P1"}
SimRess == {"R1"}

Init ==
  /\ state = NewSimulator.state
  /\ history = NewSimulator.history

SimFits == Fits(state', MaxQueue, MaxEvents, MaxStep, MaxLogs)

SimAddProcess == \E name \in SimProcs : AddProcess(name) /\ SimFits
SimAddResource == \E name \in SimRess, n \in InstanceInputs : AddResource(name, n) /\ SimFits
SimRequest ==
  \E p \in SimProcs, r \in SimRess, c \in CountInputs, q \in BOOLEAN :
    Request(p, r, c, q) /\ SimFits
SimRelease == \E p \in SimProcs, r \in SimRess, c \in CountInputs : Release(p, r, c) /\ SimFits
SimEnqueueEvent == \E e \in Events(SimProcs, SimRess, EventCounts) : EnqueueEvent(e) /\ SimFits
SimClearEvents == ClearEvents /\ SimFits
SimSetAvoidance == \E on \in BOOLEAN : SetAvoidance(on) /\ SimFits
SimStep == \E g \in BOOLEAN : StepForward(g) /\ SimFits
SimStepBackward == StepBackward /\ SimFits
SimResetToInitial == ResetToInitial /\ SimFits
SimHardReset == HardReset /\ SimFits

Next ==
  \/ SimAddProcess
  \/ SimAddResource
  \/ SimRequest
  \/ SimRelease
  \/ SimEnqueueEvent
  \/ SimClearEvents
  \/ SimSetAvoidance
  \/ SimStep
  \/ SimStepBackward
  \/ SimResetToInitial
  \/ SimHardReset

Spec == Init /\ [][Next]_vars

(* ------------------ the ledger of a populated registry ---------------- *)

\* the totals of R1 and R2 the ledger starts from
LedgerTotals == {<<1, 1>>, <<2, 1>>}

\* new RAGState(), addProcess P1, P2, addResource R1, R2 with the given totals
Registered(totals) ==
  addResource(
    addResource(
      addProcess(addProcess(NewRAGState, "P1").st, "P2").st,
      "R1", totals[1]).st,
    "R2", totals[2]).st

LedgerInit ==
  /\ \E totals \in LedgerTotals : state = Registered(totals)
  /\ history = NewSimulator.history

LedgerFits == Fits(state', LedgerMaxQueue, 0, LedgerMaxStep, LedgerMaxLogs)

LedgerRequest ==
  \E p \in ProcNames, r \in ResNames, c \in LedgerCounts, q \in BOOLEAN :
    Request(p, r, c, q) /\ LedgerFits
LedgerRelease ==
  \E p \in ProcNames, r \in ResNames, c \in LedgerCounts : Release(p, r, c) /\ LedgerFits
LedgerSetAvoidance == \E on \in BOOLEAN : SetAvoidance(on) /\ LedgerFits
LedgerStep == \E g \in BOOLEAN : StateStepForward(g) /\ LedgerFits

LedgerNext ==
  \/ LedgerRequest
  \/ LedgerRelease
  \/ LedgerSetAvoidance
  \/ LedgerStep

SpecLedger == LedgerInit /\ [][LedgerNext]_vars

(* ------------- avoidance from the start, single instances ------------- *)

\* new Simulator() followed by setAvoidance(true)
AvoidInit ==
  /\ state = setAvoidance(NewSimulator, TRUE).state
  /\ history = NewSimulator.history

AvoidFits == Fits(state', AvoidMaxQueue, AvoidMaxEvents, AvoidMaxStep, AvoidMaxLogs)

AvoidAddProcess == \E name \in ProcNames : AddProcess(name) /\ AvoidFits
AvoidAddResource == \E name \in ResNames, n \in {0, 1} : AddResource(name, n) /\ AvoidFits
AvoidRequest ==
  \E p \in ProcNames, r \in ResNames, c \in LedgerCounts, q \in BOOLEAN :
    Request(p, r, c, q) /\ AvoidFits
AvoidRelease ==
  \E p \in ProcNames, r \in ResNames, c \in LedgerCounts : Release(p, r, c) /\ AvoidFits
AvoidEnqueueEvent == \E e \in Events(ProcNames, ResNames, {1}) : EnqueueEvent(e) /\ AvoidFits
AvoidStep == \E g \in BOOLEAN : StateStepForward(g) /\ AvoidFits

AvoidNext ==
  \/ AvoidAddProcess
  \/ AvoidAddResource
  \/ AvoidRequest
  \/ AvoidRelease
  \/ AvoidEnqueueEvent
  \/ AvoidStep

SpecAvoid == AvoidInit /\ [][AvoidNext]_vars

(* ------------------------ the built-in scenarios ---------------------- *)

\* init(): new Simulator, loadSampleCycle(), setBaseline(...)
ScenarioInit ==
  /\ state = setBaseline(loadSampleCycle(NewSimulator)).state
  /\ history = setBaseline(loadSampleCycle(NewSimulator)).history

ScenarioFits ==
  /\ state'.step <= ScenarioMaxStep
  /\ Len(history') <= ScenarioMaxHistory

ScenarioLoad == LoadSample /\ ScenarioFits
ScenarioStep == \E g \in BOOLEAN : StepForward(g) /\ ScenarioFits
ScenarioStepBackward == StepBackward /\ ScenarioFits
ScenarioReset == ResetToInitial /\ ScenarioFits
ScenarioToggle == \E on \in BOOLEAN : ToggleAvoidance(on) /\ ScenarioFits

ScenarioNext ==
  \/ ScenarioLoad
  \/ ScenarioStep
  \/ ScenarioStepBackward
  \/ ScenarioReset
  \/ ScenarioToggle

SpecScenario == ScenarioInit /\ [][ScenarioNext]_vars

(* ------------- detection only: avoidance never enabled ---------------- *)

\* the totals of R1 and R2 the queues are exercised with
QueueTotals == {<<2, 1>>, <<3, 1>>}

QueueInit ==
  /\ \E totals \in QueueTotals : state = Registered(totals)
  /\ history = NewSimulator.history

QueueFits == Fits(state', QueueMaxQueue, 0, QueueMaxStep, QueueMaxLogs)

QueueRequest ==
  \E p \in ProcNames, r \in ResNames, c \in LedgerCounts, q \in BOOLEAN :
    Request(p, r, c, q) /\ QueueFits
QueueRelease ==
  \E p \in ProcNames, r \in ResNames, c \in LedgerCounts : Release(p, r, c) /\ QueueFits
QueueStep == \E g \in BOOLEAN : StateStepForward(g) /\ QueueFits

QueueNext ==
  \/ QueueRequest
  \/ QueueRelease
  \/ QueueStep

SpecQueue == QueueInit /\ [][QueueNext]_vars

(* ----------------------- a history at its cap ------------------------- *)

\* k calls of Simulator.stepForward({autoGrant: false}) on a Simulator with no
\* pending event, process states that agree with the queues and room for k
\* more snapshots: each call adds 1 to step and pushes the snapshot
IdleSteps(sim, k) ==
  [state |-> [sim.state EXCEPT !.step = @ + k],
   history |-> sim.history \o [i \in 1..k |-> serialize([sim.state EXCEPT !.step = @ + i])]]

\* init() and two steps: both events of the cycle scenario are consumed
Deadlocked ==
  SimStepForward(SimStepForward(setBaseline(loadSampleCycle(NewSimulator)), FALSE), FALSE)

\* the scenario left stepping until the history is one snapshot short of
\* HistoryCap, or holds HistoryCap snapshots
CapInit ==
  \E k \in {HistoryCap - 4, HistoryCap - 3} :
    /\ state = IdleSteps(Deadlocked, k).state
    /\ history = IdleSteps(Deadlocked, k).history

CapFits ==
  /\ state'.step <= HistoryCap + CapOver
  /\ Len(history') >= HistoryCap - CapBack

CapStep == \E g \in BOOLEAN : StepForward(g) /\ CapFits
CapStepBackward == StepBackward /\ CapFits
CapReset == ResetToInitial

CapNext ==
  \/ CapStep
  \/ CapStepBackward
  \/ CapReset

SpecCap == CapInit /\ [][CapNext]_vars

(* ----------------------- the Contention scenario ---------------------- *)

\* the Contention button: loadSampleContention(), setBaseline(...)
ContentionInit ==
  /\ state = setBaseline(loadSampleContention(NewSimulator)).state
  /\ history = setBaseline(loadSampleContention(NewSimulator)).history

ContentionFits == state'.step <= ContentionMaxStep

ContentionStep == \E g \in BOOLEAN : StepForward(g) /\ ContentionFits
ContentionStepBackward == StepBackward /\ ContentionFits
ContentionReset == ResetToInitial /\ ContentionFits

ContentionNext ==
  \/ ContentionStep
  \/ ContentionStepBackward
  \/ ContentionReset

SpecContention == ContentionInit /\ [][ContentionNext]_vars

(* ------------- three processes waiting for one another ---------------- *)

WaitsProcs == {"P1", "P2", "P3"}
WaitsRess == {"R1", "R2", "R3"}

\* new RAGState(), addProcess P1..P3, addResource R1..R3 with one instance each
ThreeByThree ==
  AddAllResources(AddAllProcesses(NewRAGState, <<"P1", "P2", "P3">>),
                  << <<"R1", 1>>, <<"R2", 1>>, <<"R3", 1>> >>)

\* then request(Pi, Ri, 1) for each i: every resource is held by its process
EachHoldsItsOwn ==
  request(request(request(ThreeByThree, "P1", "R1", 1, FALSE).st,
                  "P2", "R2", 1, FALSE).st,
          "P3", "R3", 1, FALSE).st

WaitsInit ==
  /\ state = EachHoldsItsOwn
  /\ history = NewSimulator.history

WaitsFits == Fits(state', WaitsMaxQueue, 0, WaitsMaxStep, WaitsMaxLogs)

WaitsRequest ==
  \E p \in WaitsProcs, r \in WaitsRess : Request(p, r, 1, TRUE) /\ WaitsFits
WaitsRelease ==
  \E p \in WaitsProcs, r \in WaitsRess : Release(p, r, 1) /\ WaitsFits
WaitsStep == \E g \in BOOLEAN : StateStepForward(g) /\ WaitsFits

WaitsNext ==
  \/ WaitsRequest
  \/ WaitsRelease
  \/ WaitsStep

SpecWaits == WaitsInit /\ [][WaitsNext]_vars

(* ------------- queues of two under a switchable avoidance ------------- *)

\* P1 and P2, R1 with two instances and R2 with one, avoidance off
SkipInit ==
  /\ state = Registered(<<2, 1>>)
  /\ history = NewSimulator.history

SkipFits == Fits(state', SkipMaxQueue, 0, SkipMaxStep, SkipMaxLogs)

SkipRequest ==
  \E p \in ProcNames, r \in ResNames, c \in LedgerCounts :
    Request(p, r, c, TRUE) /\ SkipFits
SkipRelease ==
  \E p \in ProcNames, r \in ResNames, c \in LedgerCounts : Release(p, r, c) /\ SkipFits
SkipSetAvoidance == \E on \in BOOLEAN : SetAvoidance(on) /\ SkipFits
SkipStep == \E g \in BOOLEAN : StateStepForward(g) /\ SkipFits

SkipNext ==
  \/ SkipRequest
  \/ SkipRelease
  \/ SkipSetAvoidance
  \/ SkipStep

SpecSkip == SkipInit /\ [][SkipNext]_vars

(* ---------------- every wait-for graph of three processes ------------- *)

\* the processes P1..Pn and the resources R1..Rn of the cycle scenarios
Pn(i) == <<"P1", "P2", "P3">>[i]
Rn(i) == <<"R1", "R2", "R3">>[i]

\* the orders the three processes and the three resources are registered in
ProcOrders == {<<"P1", "P2", "P3">>, <<"P3", "P2", "P1">>}
ResOrders ==
  {<<1, 2, 3>>, <<1, 3, 2>>, <<2, 1, 3>>, <<2, 3, 1>>, <<3, 1, 2>>, <<3, 2, 1>>}

\* addProcess in the order procs, addResource Ri with one instance in the
\* order ress, then request(Pi, Ri, 1): every Ri is held by Pi
OwnedIn(procs, ress) ==
  request(request(request(
    AddAllResources(AddAllProcesses(NewRAGState, procs),
                    [i \in 1..3 |-> <<Rn(ress[i]), 1>>]),
    "P1", "R1", 1, FALSE).st, "P2", "R2", 1, FALSE).st, "P3", "R3", 1, FALSE).st

\* request(Pw, Rh, 1) with enqueueIfBlocked for every pair <<w, h>> of edges,
\* taken in the order of the pair's number k = 3 (w - 1) + h
RECURSIVE QueuedFrom(_, _, _)
QueuedFrom(s, k, edges) ==
  IF k > 9 THEN s
  ELSE QueuedFrom(IF k \in edges
                  THEN request(s, Pn(((k - 1) \div 3) + 1), Rn(((k - 1) % 3) + 1),
                               1, TRUE).st
                  ELSE s,
                  k + 1, edges)

GraphInit ==
  /\ \E procs \in ProcOrders, ress \in ResOrders, edges \in SUBSET (1..9) :
       state = QueuedFrom(OwnedIn(procs, ress), 1, edges)
  /\ history = NewSimulator.history

GraphStep ==
  \E g \in BOOLEAN : StateStepForward(g) /\ state'.step <= GraphMaxStep

SpecGraph == GraphInit /\ [][GraphStep]_vars

(* ------------------------------ properties --------------------------- *)

\* the wait-for graph as a set of <<waiter, holder>> pairs
Edges(s) ==
  {e \in Range(ProcessNames(s)) \X Range(ProcessNames(s)) :
     e[2] \in Range(buildWFG(s)[e[1]])}

\* the pairs a cycle walks: each process and its successor, the last and the first
CycleEdges(cyc) == {<<cyc[i], cyc[(i % Len(cyc)) + 1]>> : i \in 1..Len(cyc)}

\* the simple cycles of the wait-for graph, as sequences of distinct processes
WaitCycles(s) ==
  {cyc \in UNION {[1..n -> Range(ProcessNames(s))] : n \in 1..Len(s.processes)} :
     /\ \A i, j \in 1..Len(cyc) : i # j => cyc[i] # cyc[j]
     /\ CycleEdges(cyc) \subseteq Edges(s)}

\* the resources that put the edge waiter -> holder into the wait-for graph
Contributing(s, waiter, holder) ==
  {r \in Range(s.resources) :
     /\ holder \in Range(Holders(s, r.name))
     /\ \E e \in Range(WaitQueue(s, r.name)) :
          e.process = waiter /\ availableOf(s, r.name) < e.count}

\* a definite cycle: every contributing resource has exactly one instance
IsDefinite(cyc, s) ==
  \A e \in CycleEdges(cyc) : \A r \in Contributing(s, e[1], e[2]) : r.total = 1

DefiniteCycles(s) == {cyc \in WaitCycles(s) : IsDefinite(cyc, s)}

\* the state a request is tested on: the grant when it can be granted, else the wait
Hypothetical(s, procName, resName, count) ==
  IF availableOf(s, resName) >= AtLeastOne(count)
  THEN GrantHypothesis(s, procName, resName, count)
  ELSE WaitHypothesis(s, procName, resName, count)

Denials == {"AvoidedCycle", "AvoidedWaitCycle"}

HasWait(s, resName, procName) ==
  \E e \in Range(WaitQueue(s, resName)) : e.process = procName

StateOf(s, procName) == getProcess(s, procName).state

NoDeadlockUnderAvoidance == ~detectDeadlock(state).hasCycle

\* P1 holds R1, P2 holds R2, P1 waits for R2, and the request of P2 for R1 has
\* been denied: it is denied in this state and its line is in the log
DeadlockAvoided ==
  /\ HasProcess(state, "P1") /\ HasProcess(state, "P2")
  /\ HeldOf(state, "R1", "P1") = 1 /\ HeldOf(state, "R2", "P2") = 1
  /\ HasWait(state, "R2", "P1")
  /\ request(state, "P2", "R1", 1, TRUE).ret = "AvoidedWaitCycle"
  /\ state.logs > 3

\* the ledger and the queues of the two-process scenario: P1 holds R1, P2 holds
\* R2, the request of P1 for R2 is the one queued entry
FirstRequestQueued(s) ==
  /\ AssignedMap(s, "R1") = <<[process |-> "P1", count |-> 1]>>
  /\ AssignedMap(s, "R2") = <<[process |-> "P2", count |-> 1]>>
  /\ WaitQueue(s, "R1") = <<>>
  /\ Len(WaitQueue(s, "R2")) = 1 /\ HasWait(s, "R2", "P1")

\* the two-process scenario: avoidance on, R1 and R2 single-instance
TwoProcessScenario(s) ==
  /\ s.avoidance
  /\ getResource(s, "R1").total = 1 /\ getResource(s, "R2").total = 1
  /\ FirstRequestQueued(s)
  /\ StateOf(s, "P2") # "blocked"

\* the outcome of a request that was refused before it entered the queue
RefusedWait(out, procName, resName) ==
  /\ out.ret = "AvoidedWaitCycle"
  /\ ~HasWait(out.st, resName, procName)
  /\ StateOf(out.st, procName) # "blocked"

\* C3: in the two-process scenario, the request of P2 for R1 is denied with the
\* avoided-wait-cycle outcome, R1's queue holds no entry of P2 and P2 is not
\* marked blocked
SecondRequestDenied ==
  TwoProcessScenario(state) =>
    \A c \in LedgerCounts :
      RefusedWait(request(state, "P2", "R1", c, TRUE), "P2", "R1")

\* the scenario, with the line of the denial in the log
SecondRequestTried ==
  /\ TwoProcessScenario(state)
  /\ request(state, "P2", "R1", 1, TRUE).ret = "AvoidedWaitCycle"
  /\ state.logs = 4

\* C4: with avoidance on, every request whose hypothetical state contains at
\* least one definite cycle is denied, whatever other cycles it contains
DefiniteCycleDenied ==
  state.avoidance =>
    \A p \in ProcNames, r \in ResNames, c \in LedgerCounts :
      DefiniteCycles(Hypothetical(state, p, r, c)) # {}
        => request(state, p, r, c, TRUE).ret \in Denials

\* the two-process scenario with R1 given two instances, one of them held by P1
LenientScenario(s) ==
  /\ s.avoidance
  /\ getResource(s, "R1").total = 2 /\ getResource(s, "R2").total = 1
  /\ FirstRequestQueued(s)

DenialCreatesCycle ==
  \A p \in ProcNames, r \in ResNames, c \in LedgerCounts :
    request(state, p, r, c, TRUE).ret \in Denials
      => \E cyc \in DefiniteCycles(Hypothetical(state, p, r, c)) :
           ~(CycleEdges(cyc) \subseteq Edges(state))

\* Pi holds Ri and is queued on R(i mod n + 1), every event stepped
CycleScenario(s, n) ==
  /\ ~s.avoidance
  /\ ProcessNames(s) = [i \in 1..n |-> Pn(i)]
  /\ s.resources = [i \in 1..n |-> Resource(Rn(i), 1)]
  /\ s.eventQueue = <<>>
  /\ \A i \in 1..n :
       /\ AssignedMap(s, Rn(i)) = <<[process |-> Pn(i), count |-> 1]>>
       /\ WaitQueue(s, Rn((i % n) + 1)) = <<[process |-> Pn(i), count |-> 1]>>

OneCycleOf(deadInfo, n) ==
  /\ deadInfo.hasCycle
  /\ Len(deadInfo.cycles) = 1
  /\ Len(deadInfo.cycles[1]) = n
  /\ deadInfo.involved = {Pn(i) : i \in 1..n}

\* C7: with avoidance off, once the request events of the 2-process and of the
\* 3-process cycle scenario are stepped, detectDeadlock reports hasCycle, exactly
\* one cycle, of length n, and involved = {P1..Pn}
CycleReported ==
  \A n \in {2, 3} : CycleScenario(state, n) => OneCycleOf(detectDeadlock(state), n)

\* the three request events of the 3-process scenario have been stepped
ThreeCycleFormed == CycleScenario(state, 3) /\ state.step = 3

\* the fields the round trip is observed on
Obs(s) ==
  [assignments |-> s.assignments, waitingRequests |-> s.waitingRequests,
   eventQueue |-> s.eventQueue, step |-> s.step, processes |-> s.processes]

\* Simulator.stepForward followed immediately by Simulator.stepBackward
RoundTrip(sim, autoGrant) == stepBackward(SimStepForward(sim, autoGrant))

\* C8 as stated: with fewer than 1000 snapshots in the history, stepForward then
\* stepBackward yields a live state with the assignments, wait queues, event
\* queue, step counter and process states of the live state before the step
RoundTripRestores ==
  Len(history) < HistoryCap =>
    \A g \in BOOLEAN : Obs(RoundTrip(Sim, g).state) = Obs(state)

\* the newest snapshot agrees with the live state on the observed fields
Snapshotted == Obs(from(history[Len(history)])) = Obs(state)

\* C8, amended: the round trip restores the observed fields when the newest
\* snapshot of the history agrees with the live state on them
RoundTripRestoresSnapshot ==
  (Len(history) < HistoryCap /\ Snapshotted) =>
    \A g \in BOOLEAN : Obs(RoundTrip(Sim, g).state) = Obs(state)

\* a snapshotted state with a unit held, whose step the round trip takes back
RoundTripTaken ==
  /\ Snapshotted
  /\ Len(history) > 1
  /\ state.assignments # NewRAGState.assignments
  /\ \E i \in 1..Len(state.resources) :
       SumCounts(AssignedMap(state, state.resources[i].name)) > 0
  /\ Obs(SimStepForward(Sim, TRUE).state) # Obs(state)
  /\ Obs(RoundTrip(Sim, TRUE).state) = Obs(state)

\* C9: a process with an entry in some wait queue is blocked; in particular,
\* after one of its entries is granted it is ready only if none remains
WaitingIsBlocked ==
  \A i \in 1..Len(state.processes) :
    IsWaiting(state, state.processes[i].name) => state.processes[i].state = "blocked"

\* release(P, R, count) called once and twice in a state where P holds 0 of R
NoOpTwice(s, procName, resName, count) ==
  release(release(s, procName, resName, count).st, procName, resName, count)

IsNoOp(out) == out.ret = "Released" /\ out.released = 0

\* C10 as stated: with P holding 0 units of R, consecutive releases return ok
\* with released = 0 and leave every snapshot field, the log included, unchanged
NoOpReleaseChangesNothing ==
  \A p \in ProcNames, r \in ResNames, c \in LedgerCounts :
    HeldOf(state, r, p) = 0 =>
      /\ IsNoOp(release(state, p, r, c)) /\ release(state, p, r, c).st = state
      /\ IsNoOp(NoOpTwice(state, p, r, c)) /\ NoOpTwice(state, p, r, c).st = state

\* C10, amended: each such release returns ok with released = 0, appends one
\* line to the log and leaves every other snapshot field unchanged
NoOpReleaseOnlyLogs ==
  \A p \in ProcNames, r \in ResNames, c \in LedgerCounts :
    HeldOf(state, r, p) = 0 =>
      /\ IsNoOp(release(state, p, r, c))
      /\ serialize(release(state, p, r, c).st) = serialize(Log(state, 1))
      /\ IsNoOp(NoOpTwice(state, p, r, c))
      /\ serialize(NoOpTwice(state, p, r, c).st) = serialize(Log(state, 2))

\* P1 holds nothing of R1 while P2 holds it and P1 waits for it, and releases of
\* P1 have left their lines in the log
NoOpReleased ==
  /\ HeldOf(state, "R1", "P1") = 0
  /\ HeldOf(state, "R1", "P2") > 0
  /\ HasWait(state, "R1", "P1")
  /\ state.logs > 3
  /\ release(state, "P1", "R1", 1).st = Log(state, 1)

\* names a caller may pass, one of each kind not in the registry
AnyProcNames == ProcNames \cup {"P3"}
AnyResNames == ResNames \cup {"R3"}

\* the results of a request that does not succeed
Failures == {"Invalid", "NotEnqueued", "AvoidedCycle", "AvoidedWaitCycle"}

\* C11: a request that does not succeed (invalid reference, insufficient and
\* not queued, avoided cycle, avoided wait cycle) leaves the assignments, the
\* wait queues, the process states, the event queue and the step counter as
\* they were before the call
FailedRequestChangesNothing ==
  \A p \in AnyProcNames, r \in AnyResNames, c \in CountInputs, q \in BOOLEAN :
    request(state, p, r, c, q).ret \in Failures =>
      Obs(request(state, p, r, c, q).st) = Obs(state)

\* a state with a ledger entry and a wait entry in which requests fail in each
\* of the four ways
RequestsFail ==
  /\ \E r \in ResNames : state.assignments[r] # <<>>
  /\ \E r \in ResNames : state.waitingRequests[r] # <<>>
  /\ \A f \in Failures :
       \E p \in AnyProcNames, r \in AnyResNames, c \in CountInputs, q \in BOOLEAN :
         request(state, p, r, c, q).ret = f

\* the ledger row of a resource with n units fewer for procName
LessOf(row, procName, n) ==
  [i \in 1..Len(row) |->
     IF row[i].process = procName THEN [row[i] EXCEPT !.count = @ - n] ELSE row[i]]

IsHolding(e) == e.count > 0

\* s with procName holding n units fewer of resName, no entry left at 0, and
\* one more log line
Lowered(s, procName, resName, n) ==
  [s EXCEPT !.assignments[resName] = SelectSeq(LessOf(@, procName, n), IsHolding),
            !.logs = @ + 1]

\* release(procName, resName, count) releases n units and then scans the queue
ReleasesExactly(s, procName, resName, count, n) ==
  /\ release(s, procName, resName, count).ret = "Released"
  /\ release(s, procName, resName, count).released = n
  /\ release(s, procName, resName, count).st
       = tryGrantWaiting(Lowered(s, procName, resName, n), resName).st

\* C12 as stated: for every non-negative count, when P holds held > 0 units of
\* R, release(P, R, count) lowers the holding by min(count, held), returns
\* released = min(count, held), removes the entry at 0 and then runs
\* tryGrantWaiting on R
ReleaseLowersByCount ==
  \A p \in ProcNames, r \in ResNames, c \in CountInputs :
    HeldOf(state, r, p) > 0 =>
      ReleasesExactly(state, p, r, c, Min(c, HeldOf(state, r, p)))

\* C12, amended: the same for every positive count, and a count of 0 releases
\* what a count of 1 releases
ReleaseLowersByNormalisedCount ==
  \A p \in ProcNames, r \in ResNames, c \in CountInputs :
    HeldOf(state, r, p) > 0 =>
      ReleasesExactly(state, p, r, c, Min(AtLeastOne(c), HeldOf(state, r, p)))

\* a process holds both units of R1 while an entry waits in R1's queue; a
\* release of count 0 releases one unit, a release of count 2 removes the
\* ledger entry, and the scan after it empties the queue
ReleaseRegrants ==
  \E p \in ProcNames :
    /\ HeldOf(state, "R1", p) = 2
    /\ state.waitingRequests["R1"] # <<>>
    /\ release(state, p, "R1", 0).released = 1
    /\ release(state, p, "R1", 2).released = 2
    /\ release(state, p, "R1", 2).st.waitingRequests["R1"] = <<>>

\* C13: with avoidance disabled throughout, every queue entry that remains after
\* a request, release, tryGrantWaiting or stepForward asks for more units than
\* its resource has available: no entry is left waiting that could be granted
NoSatisfiableWait ==
  \A r \in ResNames :
    \A e \in Range(state.waitingRequests[r]) : e.count > availableOf(state, r)

\* the queue of R1 holds an entry for 2 units ahead of an entry for 1 unit, and
\* a release of one unit grants the second entry while the first stays queued
SmallerGrantedFirst ==
  /\ ~state.avoidance
  /\ Len(state.waitingRequests["R1"]) = 2
  /\ state.waitingRequests["R1"][1].count = 2
  /\ state.waitingRequests["R1"][2].count = 1
  /\ \E p \in ProcNames :
       release(state, p, "R1", 1).st.waitingRequests["R1"]
         = <<state.waitingRequests["R1"][1]>>

\* s after the grant of entry e of resName's queue, which is left as q
GrantedInTurn(s, resName, e, q) ==
  [AddAssigned(s, resName, e.process, e.count) EXCEPT !.waitingRequests[resName] = q]

\* e is passed over in s: it asks for more than is available, or avoidance
\* denies its grant
PassedOver(s, resName, e) ==
  \/ e.count > availableOf(s, resName)
  \/ GrantVerdict(s, e.process, resName, e.count) = "deny"

\* one pass over the entries of resName's queue in arrival order: kept are the
\* entries passed over so far, rest the entries not yet looked at
RECURSIVE InArrivalOrder(_, _, _, _)
NextInOrder(s, resName, kept, rest, e) ==
  IF PassedOver(s, resName, e)
  THEN InArrivalOrder(s, resName, Append(kept, e), Tail(rest))
  ELSE InArrivalOrder(GrantedInTurn(s, resName, e, kept \o Tail(rest)),
                      resName, kept, Tail(rest))
InArrivalOrder(s, resName, kept, rest) ==
  IF rest = <<>> THEN s ELSE NextInOrder(s, resName, kept, rest, Head(rest))

\* the ledger and the queues of a state
Allocation(s) == [assignments |-> s.assignments, waitingRequests |-> s.waitingRequests]

\* tryGrantWaiting(resName) in s grants and keeps what the pass in arrival order does
ScansInOrder(s, resName) ==
  Allocation(tryGrantWaiting(s, resName).st)
    = Allocation(InArrivalOrder(s, resName, <<>>, s.waitingRequests[resName]))

\* the state tryGrantWaiting is called in by release(procName, resName, count),
\* with avoidance set to on beforehand
Releasing(s, procName, resName, count, on) ==
  [Lowered(s, procName, resName, Min(count, HeldOf(s, resName, procName)))
     EXCEPT !.avoidance = on]

\* C14: within one call tryGrantWaiting grants queue entries in arrival order,
\* leaves the other entries in their relative order, and passes an entry over
\* only if, when it is scanned, it asks for more than is available or the
\* avoidance test denies it
GrantsInArrivalOrder ==
  \A r \in ResNames :
    /\ ScansInOrder(state, r)
    /\ \A p \in ProcNames, c \in LedgerCounts, on \in BOOLEAN :
         HeldOf(state, r, p) > 0 => ScansInOrder(Releasing(state, p, r, c, on), r)

\* two processes wait for R1, and a release of two units grants both: the queue
\* is emptied and the ledger row lists them in their arrival order
BothGrantedInOrder ==
  /\ Len(state.waitingRequests["R1"]) = 2
  /\ state.waitingRequests["R1"][1].process # state.waitingRequests["R1"][2].process
  /\ \E p \in ProcNames :
       /\ release(state, p, "R1", 2).st.waitingRequests["R1"] = <<>>
       /\ Len(release(state, p, "R1", 2).st.assignments["R1"]) = 2
       /\ \A i \in 1..2 :
            release(state, p, "R1", 2).st.assignments["R1"][i].process
              = state.waitingRequests["R1"][i].process

\* the state left by the call an event stands for, made directly on s
Performed(s, evt) ==
  IF evt.type = "request"
  THEN request(s, evt.process, evt.resource, evt.count, TRUE).st
  ELSE release(s, evt.process, evt.resource, evt.count).st

\* next is s after a step that consumed the head of the event queue and did
\* nothing besides the call that event stands for
EventStep(s, next) ==
  /\ next.eventQueue = Tail(s.eventQueue)
  /\ Allocation(next) = Allocation(Performed(s, Head(s.eventQueue)))

\* next is s after a step with no event to consume
IdleStep(s, next, autoGrant) ==
  /\ next.eventQueue = <<>>
  /\ Allocation(next) =
       IF autoGrant THEN Allocation(GrantAll(s, s.resources, FALSE).st)
       ELSE Allocation(s)

StepRecomputesStates ==
  \A g \in BOOLEAN, p \in ProcNames :
    StateOf(stepForward(state, g), p) =
      IF \E r \in ResNames : HasWait(stepForward(state, g), r, p)
      THEN "blocked" ELSE "ready"

\* a process is marked ready while one of its entries still waits, and the
\* step marks it blocked
StepRepairsState ==
  \E p \in ProcNames :
    /\ StateOf(state, p) = "ready"
    /\ \E r \in ResNames : HasWait(stepForward(state, FALSE), r, p)
    /\ StateOf(stepForward(state, FALSE), p) = "blocked"

\* the history snapshot() leaves when it is called now
Snapshot == snapshot(Sim).history

Front(h) == SubSeq(h, 1, Len(h) - 1)

\* C18: with more than one snapshot in the history, stepBackward removes exactly
\* the last snapshot and makes the live state equal to the new last snapshot;
\* with exactly one snapshot it changes neither the history nor the live state
StepBackwardPops ==
  IF Len(history) > 1
  THEN /\ stepBackward(Sim).history = Front(history)
       /\ serialize(stepBackward(Sim).state) = history[Len(history) - 1]
  ELSE stepBackward(Sim) = Sim

\* two steps were taken from the baseline: a stepBackward returns to step 1,
\* a second one to the baseline, and a third one changes nothing
SteppedBack ==
  /\ Len(history) = 3
  /\ serialize(state) = history[3]
  /\ state.step = 2
  /\ stepBackward(Sim).state.step = 1
  /\ stepBackward(stepBackward(stepBackward(Sim))) = stepBackward(stepBackward(Sim))

\* C19: resetToInitial makes the live state equal to the snapshot at index 0 and
\* leaves the history holding exactly that snapshot, so that a stepBackward
\* right after it changes nothing
ResetKeepsFirstSnapshot ==
  /\ resetToInitial(Sim).history = <<history[1]>>
  /\ serialize(resetToInitial(Sim).state) = history[1]
  /\ stepBackward(resetToInitial(Sim)) = resetToInitial(Sim)

\* a reset from a history of several snapshots whose first differs from the
\* live state
ResetFromDeepHistory ==
  /\ Len(history) > 2
  /\ serialize(state) # history[1]
  /\ resetToInitial(Sim).state.step = 0
  /\ Len(resetToInitial(Sim).history) = 1

\* the snapshot setBaseline took when the scenario was loaded
Baseline == setBaseline(loadSampleCycle(NewSimulator)).history[1]

\* C20: once a scenario is loaded and its baseline snapshot taken, resetToInitial
\* returns the live state to that snapshot however many stepForward operations,
\* more than the history cap included, were performed since
ResetReturnsToBaseline == serialize(resetToInitial(Sim).state) = Baseline

ContentionProcs == {"P1", "P2", "P3", "P4"}

\* procName holds n units of resName and has no entry in its queue
Has(s, resName, procName, n) ==
  HeldOf(s, resName, procName) = n /\ ~HasWait(s, resName, procName)

\* procName holds nothing of resName and is the only entry of its queue
Awaits(s, resName, procName) ==
  /\ HeldOf(s, resName, procName) = 0
  /\ WaitQueue(s, resName) = <<[process |-> procName, count |-> 1]>>

\* the outcome the scenario states for the k-th event, in the state after step k
ContentionOutcome(s, k) ==
  CASE k = 1 -> Awaits(s, "CPU", "P3")
    [] k = 2 -> Has(s, "IO", "P4", 1)
    [] k = 3 -> Has(s, "CPU", "P3", 1) /\ Has(s, "CPU", "P2", 0)
    [] k = 4 -> Awaits(s, "IO", "P1") /\ Has(s, "IO", "P4", 1)
    [] k = 5 -> Has(s, "IO", "P1", 1) /\ Has(s, "IO", "P4", 0)
    [] k = 6 -> Awaits(s, "IO", "P2") /\ Has(s, "IO", "P1", 1)
    [] OTHER -> TRUE

\* C21: in the Contention scenario with avoidance disabled the run follows the
\* stated outcomes (P3 queued then granted CPU on P2's release, P4 granted IO,
\* P1 queued then granted IO on P4's release, P2 queued on IO) and
\* detectDeadlock reports no cycle after any step, the auto-grant steps that
\* follow the last event included
ContentionRunsWithoutCycle ==
  /\ ~detectDeadlock(state).hasCycle
  /\ ContentionOutcome(state, Min(state.step, 6))
  /\ Len(state.eventQueue) = Max(0, 6 - state.step)

\* the six events are consumed and auto-grant steps have followed them
ContentionDrained ==
  /\ state.step = 9
  /\ state.eventQueue = <<>>
  /\ ContentionOutcome(state, 6)
  /\ stepForward(state, TRUE) = Log([state EXCEPT !.step = 10], 1)

\* every event is consumed and a further auto-grant step grants nothing
Quiescent(s) ==
  /\ s.step >= 6
  /\ s.eventQueue = <<>>
  /\ Allocation(stepForward(s, TRUE)) = Allocation(s)

\* C22 as stated: once the six events of the Contention scenario are consumed
\* and auto-grant steps change nothing any more, P1..P4 are all ready
ContentionEndsAllReady ==
  Quiescent(state) => \A p \in ContentionProcs : StateOf(state, p) = "ready"

\* C22, amended: then P1, P3 and P4 are ready and P2 is blocked, its request
\* for IO waiting behind P1, which holds the only unit
ContentionEndsWithP2Waiting ==
  Quiescent(state) =>
    /\ \A p \in {"P1", "P3", "P4"} : StateOf(state, p) = "ready"
    /\ StateOf(state, "P2") = "blocked"
    /\ Awaits(state, "IO", "P2")
    /\ Has(state, "IO", "P1", 1)

\* two auto-grant steps after the last event: nothing changes any more and P2
\* is still blocked
ContentionSettled ==
  /\ state.step = 8
  /\ state.logs > setBaseline(loadSampleContention(NewSimulator)).state.logs + 8
  /\ Quiescent(state)
  /\ StateOf(state, "P2") = "blocked"

\* the processes on some directed cycle of the wait-for graph
OnCycle(s) == UNION {Range(cyc) : cyc \in WaitCycles(s)}

\* C28: the involved set detectDeadlock returns is the set of all processes
\* that lie on at least one directed cycle of the wait-for graph
InvolvedIsAllOnCycles == detectDeadlock(state).involved = OnCycle(state)

\* the states one operation leads to from s when no process of members
\* releases a resource: a request, a release by another process, an enqueued
\* event, a step, or an enqueued event and the step that consumes it
After(s, members, procs, ress) ==
  {request(s, p, r, 1, q).st : p \in procs, r \in ress, q \in BOOLEAN}
    \cup {release(s, p, r, 1).st : p \in procs \ members, r \in ress}
    \cup {enqueueEvent(s, e) : e \in Events(procs, ress, {1})}
    \cup {stepForward(s, g) : g \in BOOLEAN}
    \cup {stepForward(enqueueEvent(s, e), TRUE) :
            e \in {x \in Events(procs, ress, {1}) :
                     x.type = "request" \/ x.process \notin members}}

Continuations(s, members) == After(s, members, WaitsProcs, WaitsRess)

\* the entries of procName in the queue of resName
EntriesOf(s, resName, procName) ==
  SelectSeq(WaitQueue(s, resName), LAMBDA e : e.process = procName)

\* detectDeadlock reports in next a cycle that walks the same edges as cyc
StillReported(cyc, next) ==
  \E i \in 1..Len(detectDeadlock(next).cycles) :
    CycleEdges(detectDeadlock(next).cycles[i]) = CycleEdges(cyc)

\* none of the wait entries behind the edges of cyc in s is granted in next
StillWaiting(cyc, s, next) ==
  \A e \in CycleEdges(cyc) : \A r \in Contributing(s, e[1], e[2]) :
    /\ Len(EntriesOf(next, r.name, e[1])) >= Len(EntriesOf(s, r.name, e[1]))
    /\ HeldOf(next, r.name, e[1]) = HeldOf(s, r.name, e[1])

\* the cycles detectDeadlock reports in s that are definite
ReportedDefinite(s) ==
  {cyc \in Range(detectDeadlock(s).cycles) : IsDefinite(cyc, s)}

\* C23: a definite cycle persists: after every stepForward, enqueueEvent,
\* request or release in which no process of the cycle releases a resource,
\* detectDeadlock still reports that cycle and none of the cycle's blocking
\* wait entries has been granted
DefiniteCyclePersists ==
  \A cyc \in ReportedDefinite(state) :
    \A next \in Continuations(state, Range(cyc)) :
      StillReported(cyc, next) /\ StillWaiting(cyc, state, next)

\* the entries of procName in the queue of resName that ask for more than is
\* available
BlockingOf(s, resName, procName) ==
  SelectSeq(WaitQueue(s, resName),
            LAMBDA e : e.process = procName /\ e.count > availableOf(s, resName))

Tentative(s, procName, resName, count) ==
  GrantHypothesis(s, procName, resName, AtLeastOne(count))

\* request(procName, resName, count) in s is denied and changes no assignment
GrantRefused(s, procName, resName, count) ==
  /\ request(s, procName, resName, count, TRUE).ret = "AvoidedCycle"
  /\ request(s, procName, resName, count, TRUE).st.assignments = s.assignments

\* tryGrantWaiting(resName) in s leaves the head of the queue where it is and
\* its process holding what it held
HeadRefused(s, resName) ==
  /\ Len(tryGrantWaiting(s, resName).st.waitingRequests[resName]) >= 1
  /\ tryGrantWaiting(s, resName).st.waitingRequests[resName][1]
       = s.waitingRequests[resName][1]
  /\ HeldOf(tryGrantWaiting(s, resName).st, resName, s.waitingRequests[resName][1].process)
       = HeldOf(s, resName, s.waitingRequests[resName][1].process)

\* with avoidance on, every request that fits and whose tentative state passes
\* test is refused
RequestsRefusedWhen(s, test(_)) ==
  s.avoidance =>
    \A p \in ProcNames, r \in ResNames, c \in LedgerCounts :
      (availableOf(s, r) >= c /\ test(Tentative(s, p, r, c)))
        => GrantRefused(s, p, r, c)

\* with avoidance on, the head of every queue is refused when it fits and its
\* tentative state passes test
HeadsRefusedWhen(s, test(_)) ==
  s.avoidance =>
    \A r \in ResNames :
      (/\ s.waitingRequests[r] # <<>>
       /\ availableOf(s, r) >= s.waitingRequests[r][1].count
       /\ test(Tentative(s, s.waitingRequests[r][1].process, r,
                         s.waitingRequests[r][1].count)))
        => HeadRefused(s, r)

HasAnyCycle(s) == detectDeadlock(s).hasCycle

\* the wait-for graph of s has a cycle and every resource has one instance
CycleOverSingleInstances(s) ==
  /\ detectDeadlock(s).hasCycle
  /\ \A i \in 1..Len(s.resources) : s.resources[i].total = 1

\* the states the queues are scanned in: the live state, and the state a
\* release scans the queue in
ScanStates ==
  {state} \cup {Releasing(state, p, r, c, state.avoidance) :
                  p \in {x \in ProcNames : \E y \in ResNames : HeldOf(state, y, x) > 0},
                  r \in ResNames, c \in LedgerCounts}

WaitsOn(s, waiter, holder) ==
  \E i \in 1..Len(s.resources) :
    /\ HeldOf(s, s.resources[i].name, holder) >= 1
    /\ \E e \in Range(s.waitingRequests[s.resources[i].name]) :
         e.process = waiter /\ e.count > availableOf(s, s.resources[i].name)

\* C26: buildWFG contains the edge P -> Q exactly when some resource has a wait
\* entry of P whose count exceeds its availability and Q holds at least one
\* unit of it: a covered entry gives no edge, a blocked one an edge to every
\* holder
WFGEdgesAreBlockedWaits ==
  \A p \in ProcNames, q \in ProcNames :
    (q \in Range(buildWFG(state)[p])) <=> WaitsOn(state, p, q)

\* R1 is held by both processes and an entry waits for it, with an edge to
\* each holder, while the entry in R2's queue is covered by what is available
\* and gives no edge
BlockedAndCoveredEntries ==
  /\ HeldOf(state, "R1", "P1") = 1 /\ HeldOf(state, "R1", "P2") = 1
  /\ \E p \in ProcNames :
       /\ HasWait(state, "R1", p)
       /\ Range(buildWFG(state)[p]) = {"P1", "P2"}
       /\ \A q \in ProcNames \ {p} : buildWFG(state)[q] = <<>>
  /\ \E q \in ProcNames :
       /\ state.waitingRequests["R2"] = <<[process |-> q, count |-> 1]>>
       /\ availableOf(state, "R2") = 1

\* C27: detectCyclesInAdj returns hasCycle exactly when the graph has a directed
\* cycle, and every sequence it records is a cycle of the graph: each element
\* has an edge to the next and the last has an edge to the first
DetectsGenuineCycles ==
  /\ detectCyclesInAdj(buildWFG(state), ProcessNames(state)).hasCycle
       <=> WaitCycles(state) # {}
  /\ \A cyc \in Range(detectCyclesInAdj(buildWFG(state), ProcessNames(state)).cycles) :
       CycleEdges(cyc) \subseteq Edges(state)

\* a graph in which the search records two cycles, one of them through all
\* three processes
TwoCyclesRecorded ==
  /\ Len(detectCyclesInAdj(buildWFG(state), ProcessNames(state)).cycles) = 2
  /\ \E cyc \in Range(detectCyclesInAdj(buildWFG(state), ProcessNames(state)).cycles) :
       Len(cyc) = 3

(* ------------------- the newest snapshot and the live state ----------- *)

\* the newest snapshot of the history is the serialization of the live state
Current(sim) == sim.history[Len(sim.history)] = serialize(sim.state)

\* C29: immediately after Simulator.stepForward, a stepBackward that is not a
\* no-op, resetToInitial and hardReset, the newest snapshot of the history equals
\* the live state in every snapshot field: processes, resources, assignments,
\* wait queues, event queue, step counter, log and avoidance flag
LastSnapshotIsCurrent ==
  /\ \A g \in BOOLEAN : Current(SimStepForward(Sim, g))
  /\ Len(history) > 1 => Current(stepBackward(Sim))
  /\ Current(resetToInitial(Sim))
  /\ Current(hardReset(Sim))

\* a live state that has moved on from the newest snapshot, with an event to
\* perform and a different snapshot to go back to
MovedOnFromSnapshot ==
  /\ Len(history) > 1
  /\ ~Current(Sim)
  /\ history[Len(history) - 1] # history[Len(history)]
  /\ state.eventQueue # <<>>
  /\ stepForward(state, TRUE).assignments # state.assignments

(* ------------------------------ the trace ----------------------------- *)

\* record rec carries the step, processes, resources, assignment map and wait
\* queues of snapshot h
CarriesSnapshot(rec, h) ==
  /\ rec.step = h.step
  /\ rec.processes = h.processes
  /\ rec.resources = h.resources
  /\ rec.assignments = h.assignments
  /\ rec.waitingRequests = h.waitingRequests

\* record rec carries an available map that gives, for each resource of
\* snapshot h, its total minus the counts assigned on it in h
CarriesAvailable(rec, h) ==
  /\ "available" \in DOMAIN rec
  /\ \A r \in Range(h.resources) :
       /\ r.name \in DOMAIN rec.available
       /\ rec.available[r.name] = r.total - SumCounts(AssignedMap(h, r.name))

\* exportTrace leaves the Simulator as it was and returns one record per
\* snapshot of the history, in history order, each carrying its snapshot
TraceFollowsHistory ==
  /\ exportTrace(Sim).sim = Sim
  /\ Len(exportTrace(Sim).ret) = Len(history)
  /\ \A i \in 1..Len(history) : CarriesSnapshot(exportTrace(Sim).ret[i], history[i])

\* C30: exportTrace returns exactly one record per history snapshot, in history
\* order, without changing the history or the live state, and each record
\* carries the snapshot's step, processes, resources, assignment map, wait queues
\* and an available map in which available[R] is total(R) minus the sum of the
\* counts assigned on R in that snapshot
TraceCarriesAvailable ==
  /\ TraceFollowsHistory
  /\ \A i \in 1..Len(history) : CarriesAvailable(exportTrace(Sim).ret[i], history[i])

(* ------------------------ the counts of the ledger -------------------- *)

Rejected(s, resName, i) ==
  /\ availableOf(s, resName) >= s.waitingRequests[resName][i].count
  /\ GrantVerdict(s, s.waitingRequests[resName][i].process, resName,
                  s.waitingRequests[resName][i].count) = "deny"

\* entry i of the queue of resName fits what is available in s, and the
\* avoidance test lets its grant through
Admitted(s, resName, i) ==
  /\ availableOf(s, resName) >= s.waitingRequests[resName][i].count
  /\ GrantVerdict(s, s.waitingRequests[resName][i].process, resName,
                  s.waitingRequests[resName][i].count) # "deny"

\* the scan of resName reaches entry i in state s itself: no entry before it
\* is granted
ReachedUnchanged(s, resName, i) ==
  \A j \in 1..(i - 1) : ~Admitted(s, resName, j)

\* the units of resName that next holds for procName beyond those of s are
\* the counts of the entries of procName that left the queue
GrantedFromQueue(s, next, resName, procName) ==
  HeldOf(next, resName, procName) - HeldOf(s, resName, procName)
    = SumCounts(EntriesOf(s, resName, procName))
        - SumCounts(EntriesOf(next, resName, procName))

\* after the scan of resName in s, entry i is where it was, with its count,
\* and its process was granted nothing for it
LeftInQueue(s, next, resName, i) ==
  /\ Len(next.waitingRequests[resName]) >= i
  /\ next.waitingRequests[resName][i] = s.waitingRequests[resName][i]
  /\ GrantedFromQueue(s, next, resName, s.waitingRequests[resName][i].process)

\* after the scan of resName in s, entry i has left the queue and its process
\* holds its count more
GrantedBehind(s, next, resName, i) ==
  /\ Len(next.waitingRequests[resName]) < Len(s.waitingRequests[resName])
  /\ HeldOf(next, resName, s.waitingRequests[resName][i].process)
       >= HeldOf(s, resName, s.waitingRequests[resName][i].process)
            + s.waitingRequests[resName][i].count

\* the scan of resName in s leaves every rejected entry it reaches in place
\* and goes on to the entry behind it
RejectedIsSkipped(s, resName) ==
  \A i \in 1..Len(s.waitingRequests[resName]) :
    (ReachedUnchanged(s, resName, i) /\ Rejected(s, resName, i)) =>
      /\ LeftInQueue(s, tryGrantWaiting(s, resName).st, resName, i)
      /\ (i < Len(s.waitingRequests[resName]) /\ Admitted(s, resName, i + 1))
           => GrantedBehind(s, tryGrantWaiting(s, resName).st, resName, i + 1)

\* C32: with avoidance enabled, a wait-queue candidate that tryGrantWaiting
\* rejects through the avoidance test stays in the queue at its position with
\* its count unchanged, nothing is granted for it, and the scan still examines,
\* and can grant, the entries behind it in the same call
RejectedCandidateStays ==
  \A s \in ScanStates : s.avoidance => \A r \in ResNames : RejectedIsSkipped(s, r)

\* avoidance is on and a release makes room on a resource whose queue has a
\* head that is rejected and, behind it, an entry that is granted in the same scan
RejectedThenGranted ==
  /\ state.avoidance
  /\ \E s \in ScanStates \ {state} : \E r \in ResNames :
       /\ Len(s.waitingRequests[r]) = 2
       /\ Rejected(s, r, 1)
       /\ Admitted(s, r, 2)
       /\ tryGrantWaiting(s, r).st.waitingRequests[r] = <<s.waitingRequests[r][1]>>

(* --------------------- waits that are safe to grant ------------------- *)

\* s with the head of the queue of resName granted and removed from the queue
HeadGranted(s, resName) ==
  RemoveWait(AddAssigned(s, resName, s.waitingRequests[resName][1].process,
                         s.waitingRequests[resName][1].count),
             resName, 1)

\* the head of the queue of resName fits what is available in s, and the state
\* with it granted and removed has no wait-for cycle
HeadIsSafe(s, resName) ==
  /\ s.waitingRequests[resName] # <<>>
  /\ availableOf(s, resName) >= s.waitingRequests[resName][1].count
  /\ ~HasAnyCycle(HeadGranted(s, resName))

\* the process at the head of the queue of resName in s holds, in next, the
\* count of that entry more
HeadServed(s, next, resName) ==
  HeldOf(next, resName, s.waitingRequests[resName][1].process)
    >= HeldOf(s, resName, s.waitingRequests[resName][1].process)
         + s.waitingRequests[resName][1].count

\* C33: with avoidance enabled, when a release of a resource makes room for the
\* entry at the head of its queue and the state with that entry granted and
\* removed from the queue has no wait-for cycle, the entry is granted during the
\* release, or at the latest during the next auto-grant step, whether the
\* resource has one instance or several
SafeWaitIsGranted ==
  (state.avoidance /\ state.eventQueue = <<>>) =>
    \A p \in ProcNames, r \in ResNames, c \in LedgerCounts :
      (HeldOf(state, r, p) > 0 /\ HeadIsSafe(Releasing(state, p, r, c, TRUE), r))
        => HeadServed(Releasing(state, p, r, c, TRUE),
                      stepForward(release(state, p, r, c).st, TRUE), r)

(* ------------------------- waits for oneself -------------------------- *)

\* C34 as stated: the wait-for graph has no edge from a process to itself, and
\* detectDeadlock reports no cycle of length 1
NoSelfWaitReported ==
  /\ \A p \in Range(ProcessNames(state)) : <<p, p>> \notin Edges(state)
  /\ \A cyc \in Range(detectDeadlock(state).cycles) : Len(cyc) # 1

\* C34, amended: the wait-for graph has an edge from a process to itself exactly
\* when some wait entry of the process asks for more than is available of a
\* resource the process holds a unit of, and detectDeadlock then reports the
\* cycle of length 1 made of that process and counts it among the involved
SelfWaitIsReported ==
  \A p \in Range(ProcessNames(state)) :
    /\ <<p, p>> \in Edges(state) <=> WaitsOn(state, p, p)
    /\ WaitsOn(state, p, p) <=> <<p>> \in Range(detectDeadlock(state).cycles)
    /\ WaitsOn(state, p, p) => p \in detectDeadlock(state).involved

\* a process holds one of the two units of R1 and waits for one more while the
\* other process holds the other unit; its cycle of length 1 is reported
HolderWaitsForMore ==
  /\ getResource(state, "R1").total = 2
  /\ HeldOf(state, "R1", "P1") = 1
  /\ HeldOf(state, "R1", "P2") = 1
  /\ state.waitingRequests["R1"] = <<[process |-> "P1", count |-> 1]>>
  /\ <<"P1">> \in Range(detectDeadlock(state).cycles)

(* ---------------------- events that take no effect -------------------- *)

\* the events offered to the stepper: requests, releases and events of a type
\* the stepper does not know, for a process that may be registered and one
\* that never is
OfferedEvents ==
  [type : {"request", "release", "pause"}, process : ProcNames, resource : SimRess,
   count : {1}]

\* clearEvents, enqueueEvent(evt), then enqueueEvent of each event that was
\* pending: evt is at the head of the event queue
Offered(s, evt) == EnqueueAll(enqueueEvent(clearEvents(s), evt), s.eventQueue)

\* the dispatch of evt in s takes no effect: it has an unknown type, names a
\* process or a resource that does not exist, or is a request that avoidance denies
TakesNoEffect(s, evt) ==
  \/ evt.type \notin {"request", "release"}
  \/ ~HasProcess(s, evt.process)
  \/ ~HasResource(s, evt.resource)
  \/ /\ evt.type = "request"
     /\ request(s, evt.process, evt.resource, evt.count, TRUE).ret
          \in {"AvoidedCycle", "AvoidedWaitCycle"}

\* next has the pending events, the ledger and the wait queues of s
NoTraceOf(s, next) ==
  /\ next.eventQueue = s.eventQueue
  /\ next.assignments = s.assignments
  /\ next.waitingRequests = s.waitingRequests

\* the step after next does what it does after s: nothing is attempted again
NotAttemptedAgain(s, next) ==
  \A g \in BOOLEAN :
    /\ stepForward(next, g).eventQueue = stepForward(s, g).eventQueue
    /\ Allocation(stepForward(next, g)) = Allocation(stepForward(s, g))

\* C35: stepForward removes the head event from the event queue whether or not
\* its dispatch takes effect: an event whose request is denied by avoidance,
\* whose process or resource does not exist, or whose type is neither request
\* nor release is consumed by that step, is not put back and is not attempted
\* again by a later step
IneffectiveEventIsConsumed ==
  \A evt \in OfferedEvents : TakesNoEffect(state, evt) =>
    \A g \in BOOLEAN :
      /\ NoTraceOf(state, stepForward(Offered(state, evt), g))
      /\ NotAttemptedAgain(state, stepForward(Offered(state, evt), g))

\* the pending event is a request of a registered process for a registered
\* resource that avoidance denies; the step consumes it
DeniedEventPending ==
  /\ state.avoidance
  /\ Len(state.eventQueue) = 1
  /\ Head(state.eventQueue).type = "request"
  /\ HasProcess(state, Head(state.eventQueue).process)
  /\ HasResource(state, Head(state.eventQueue).resource)
  /\ TakesNoEffect(state, Head(state.eventQueue))
  /\ stepForward(state, TRUE).eventQueue = <<>>

(* --------------------------- quiescent states ------------------------- *)

\* every wait entry of s asks for more than is available of its resource
NothingCovered(s) ==
  \A i \in 1..Len(s.resources) :
    \A e \in Range(WaitQueue(s, s.resources[i].name)) :
      e.count > availableOf(s, s.resources[i].name)

\* every process of s is blocked when it has a wait entry and ready when not
StatesMatchQueues(s) ==
  \A i \in 1..Len(s.processes) :
    s.processes[i].state
      = IF \E r \in DOMAIN s.waitingRequests :
             \E e \in Range(s.waitingRequests[r]) : e.process = s.processes[i].name
        THEN "blocked" ELSE "ready"

\* no event is pending, no wait entry is covered and the process states match
\* the queues
AtRest(s) == s.eventQueue = <<>> /\ NothingCovered(s) /\ StatesMatchQueues(s)

\* s and next differ in the step counter and the log at most
SameButStepAndLog(s, next) ==
  /\ next.processes = s.processes
  /\ next.resources = s.resources
  /\ next.assignments = s.assignments
  /\ next.waitingRequests = s.waitingRequests
  /\ next.eventQueue = s.eventQueue
  /\ next.avoidance = s.avoidance

\* C36: when the event queue is empty, no wait-queue entry has a count covered
\* by its resource's availability and every process's state matches its queue
\* membership, stepForward with autoGrant changes only the step counter and the
\* log: processes, resources, assignments, wait queues, event queue and
\* avoidance flag are unchanged
QuiescentStepIsIdle ==
  AtRest(state) =>
    /\ SameButStepAndLog(state, stepForward(state, TRUE))
    /\ stepForward(state, TRUE).step = state.step + 1

\* a quiescent state in which a process is blocked on a resource that another
\* process holds
AtRestWithBlockedWaiter ==
  /\ AtRest(state)
  /\ \E p \in ProcNames, q \in ProcNames, r \in ResNames :
       /\ p # q
       /\ HasWait(state, r, p)
       /\ HeldOf(state, r, q) >= 1
       /\ StateOf(state, p) = "blocked"

(* ------------------------ duplicate wait entries ---------------------- *)

\* request(procName, resName, count) in s, where procName already waits for
\* resName, is queued as one more entry at the tail of the queue
QueuedBehindOwnEntry(s, procName, resName, count) ==
  /\ request(s, procName, resName, count, TRUE).st.waitingRequests[resName]
       = Append(s.waitingRequests[resName],
                [process |-> procName, count |-> AtLeastOne(count)])
  /\ request(s, procName, resName, count, TRUE).st.assignments = s.assignments

\* entry e fits what is available of resName in s and avoidance does not deny it
Served(s, resName, e) ==
  /\ e.count <= availableOf(s, resName)
  /\ GrantVerdict(s, e.process, resName, e.count) # "deny"

\* the state the second of two entries is looked at in: s with the first
\* entry granted and removed when it is served, s when it is not
AfterFirst(s, resName) ==
  IF Served(s, resName, s.waitingRequests[resName][1])
  THEN RemoveWait(AddAssigned(s, resName, s.waitingRequests[resName][1].process,
                              s.waitingRequests[resName][1].count),
                  resName, 1)
  ELSE s

\* the same, for the second entry, which is the last of the queue of mid
AfterSecond(mid, resName, e) ==
  IF Served(mid, resName, e)
  THEN RemoveWait(AddAssigned(mid, resName, e.process, e.count),
                  resName, Len(mid.waitingRequests[resName]))
  ELSE mid

\* tryGrantWaiting(resName) in s, whose queue is two entries, serves the first
\* on its own merits and then the second on its own merits
EachServedInTurn(s, resName) ==
  Allocation(tryGrantWaiting(s, resName).st)
    = Allocation(AfterSecond(AfterFirst(s, resName), resName,
                             s.waitingRequests[resName][2]))

\* the queue of resName in s is two entries of one process
TwoEntriesOfOne(s, resName) ==
  /\ Len(s.waitingRequests[resName]) = 2
  /\ s.waitingRequests[resName][1].process = s.waitingRequests[resName][2].process

\* C37: when a process that already has an entry in the wait queue of a resource
\* requests it again with insufficient availability, and is not denied, a
\* further entry is appended at the tail of that queue, and tryGrantWaiting
\* later considers each entry of the process on its own, in queue order
DuplicateEntriesKept ==
  /\ \A p \in ProcNames, r \in ResNames, c \in LedgerCounts :
       (HasWait(state, r, p) /\ request(state, p, r, c, TRUE).ret = "Queued")
         => QueuedBehindOwnEntry(state, p, r, c)
  /\ \A s \in ScanStates : \A r \in ResNames :
       TwoEntriesOfOne(s, r) => EachServedInTurn(s, r)

\* P1 has two entries for one unit of R1 each; a release of one unit grants
\* the first and leaves the second queued, a release of two grants both
TwoEntriesServedApart ==
  /\ state.waitingRequests["R1"]
       = <<[process |-> "P1", count |-> 1], [process |-> "P1", count |-> 1]>>
  /\ HeldOf(state, "R1", "P2") = 2
  /\ release(state, "P2", "R1", 1).st.waitingRequests["R1"]
       = <<[process |-> "P1", count |-> 1]>>
  /\ HeldOf(release(state, "P2", "R1", 1).st, "R1", "P1") = 1
  /\ release(state, "P2", "R1", 2).st.waitingRequests["R1"] = <<>>
  /\ HeldOf(release(state, "P2", "R1", 2).st, "R1", "P1") = 2

(* ---------------------- the scan comes to an end ---------------------- *)

\* the entries of resName's queue at and behind the index of c
Left(c, resName) == Len(c.st.waitingRequests[resName]) - c.i + 1

\* the iteration from c to next either advances the index and leaves the queue
\* alone, or keeps the index and removes one entry
AdvancesOrRemoves(c, next, resName) ==
  \/ /\ next.i = c.i + 1
     /\ next.st.waitingRequests[resName] = c.st.waitingRequests[resName]
  \/ /\ next.i = c.i
     /\ Len(next.st.waitingRequests[resName]) = Len(c.st.waitingRequests[resName]) - 1

\* the iteration made at c, when the loop has not ended there, leaves one
\* entry less to look at
IterationShortens(c, resName) ==
  c.i <= Len(c.st.waitingRequests[resName]) =>
    /\ AdvancesOrRemoves(c, ScanOnce(c.st, resName, c.i), resName)
    /\ Left(ScanOnce(c.st, resName, c.i), resName) = Left(c, resName) - 1

\* the loop of tryGrantWaiting(resName) started in s ends within as many
\* iterations as the queue has entries, in the state tryGrantWaiting returns
EndsWithinQueueLength(s, resName) ==
  /\ \A k \in 0..Len(s.waitingRequests[resName]) :
       IterationShortens(ScanFrom(s, resName, 1, k), resName)
  /\ Left(ScanFrom(s, resName, 1, Len(s.waitingRequests[resName])), resName) = 0
  /\ Allocation(ScanFrom(s, resName, 1, Len(s.waitingRequests[resName])).st)
       = Allocation(tryGrantWaiting(s, resName).st)

\* the scans of R1 and then R2, each run to its end
BothScanned(s) ==
  ScanFrom(ScanFrom(s, "R1", 1, Len(s.waitingRequests["R1"])).st, "R2", 1,
           Len(s.waitingRequests["R2"])).st

\* C38: every call of tryGrantWaiting terminates, with avoidance on or off: each
\* iteration of its loop either advances the scan index or removes one entry
\* from the queue, so the loop ends within as many iterations as the queue has
\* entries; a release is one such scan and an idle step one scan a resource
ScanTerminates ==
  /\ \A s \in ScanStates : \A r \in ResNames : EndsWithinQueueLength(s, r)
  /\ \A p \in ProcNames, r \in ResNames, c \in LedgerCounts :
       HeldOf(state, r, p) > 0 =>
         Allocation(release(state, p, r, c).st)
           = Allocation(ScanFrom(Releasing(state, p, r, c, state.avoidance), r, 1,
                                 Len(state.waitingRequests[r])).st)
  /\ state.eventQueue = <<>> =>
       Allocation(stepForward(state, TRUE)) = Allocation(BothScanned(state))

\* avoidance is on and a release starts a scan of two entries whose first
\* iteration advances the index past a denied entry and whose second removes
\* the entry behind it
ScanAdvancesThenRemoves ==
  /\ state.avoidance
  /\ \E s \in ScanStates : \E r \in ResNames :
       /\ s # state
       /\ Len(s.waitingRequests[r]) = 2
       /\ availableOf(s, r) >= s.waitingRequests[r][1].count
       /\ ScanOnce(s, r, 1) = [st |-> s, i |-> 2]
       /\ ScanOnce(s, r, 2).i = 2
       /\ Len(ScanOnce(s, r, 2).st.waitingRequests[r]) = 1

====
